---- MODULE Spec2Model ----
(***************************************************************************)
(* Rule composition engine of xui-client-geoip-rules (src/src/types.ts,    *)
(* src/src/utils/removeDuplicateRules.ts, src/src/utils/buildDomainRule.ts,*)
(* src/src/constants.ts).                                                   *)
(*                                                                         *)
(* The preset store is the state left by createServer's loading loops; the *)
(* request handler is modelled with one action per resumption: it suspends *)
(* at the GeoIP lookup, at the upstream fetch and at the transform hook.   *)
(*                                                                         *)
(* JSON objects are TLA+ functions from key strings to values, so a key is *)
(* present iff it is in the DOMAIN; arrays are sequences; the empty string *)
(* is the empty ISO code ('').                                             *)
(***************************************************************************)
EXTENDS Integers, Sequences, FiniteSets, TLC

VARIABLES
    RULE_PRESETS,         \* Record<string, XrayRule[]>
    OVERRIDE_PRESETS,     \* Record<string, JsonOptions>
    REVERSE_PRESETS,      \* ReversePreset[] in load order
    TAGS_PRESETS,         \* Record<string, TagPreset>
    directSameCountry,    \* createServer option
    publicURL,            \* createServer option, "" when not configured
    transform,            \* createServer option: which hook is configured
    USERS_COUNTRY_CACHE,  \* Map<string, string>
    pc,                   \* position of the request handler
    subscriptionId,       \* req.params.subscriptionId
    tagsList,             \* tags of the ?tags= query
    userTags,             \* getUserTags(subscriptionId)
    activeTags,           \* [...tagsList, ...userTags]
    lookup,               \* what ipLookup(ip)?.country gave this run ("" for nothing)
    lastSuccess,          \* history: per subscriber, the latest non-empty lookup result
    iso,                  \* resolved country code
    res,                  \* upstream Response (ok, status, header names)
    original,             \* upstream document
    replyHeaders,         \* names of the headers set with reply.header
    statusCode,           \* reply status code
    rules,                \* assembled rule list (before deduplication)
    merged,               \* merged document
    transformed,          \* document returned by the hook
    sent,                 \* payloads passed to reply.send, in call order
    nreq,                 \* number of requests received so far
    callArg,              \* argument of a direct call of removeDuplicateRules
    callResults,          \* values returned by successive direct calls
    includesDir,          \* the files of rules/includes, by file name
    raw,                  \* text of the file given to parseWithIncludes
    expectArray,          \* second argument of parseWithIncludes
    seenPaths,            \* `seen`: the Set shared by one top-level expansion
    frames,               \* activations of expandIncludes, innermost last
    expanded,             \* text returned by the top-level expandIncludes
    parsed,               \* outcome of parseWithIncludes
    rulesDir,             \* the rules directory as the loading loops find it
    overridesDir,         \* the overrides directory
    tagsDir,              \* the tags directory
    caseSensitive,        \* whether the file system tells base.json from BASE.json
    fileIdx,              \* position of the running `for (const file of ...)`
    tagIdx,               \* position of `for (const dirent of readdirSync(tagsDir))`
    tagPreset,            \* `preset` of the tag directory being loaded
    requests,             \* the handler runs in flight when requests overlap
    lookedUpCodes         \* codes ipLookup has returned so far, by subscriptionId

vars == <<RULE_PRESETS, OVERRIDE_PRESETS, REVERSE_PRESETS, TAGS_PRESETS,
          directSameCountry, publicURL, transform, USERS_COUNTRY_CACHE,
          pc, subscriptionId, tagsList, userTags, activeTags, lookup, lastSuccess,
          iso, res, original, replyHeaders, statusCode, rules, merged,
          transformed, sent, nreq, callArg, callResults,
          includesDir, raw, expectArray, seenPaths, frames, expanded, parsed,
          rulesDir, overridesDir, tagsDir, caseSensitive, fileIdx, tagIdx, tagPreset,
          requests, lookedUpCodes>>

storeVars == <<RULE_PRESETS, OVERRIDE_PRESETS, REVERSE_PRESETS, TAGS_PRESETS>>
configVars == <<directSameCountry, publicURL, transform>>
callVars == <<callArg, callResults>>
includeVars == <<includesDir, raw, expectArray, seenPaths, frames, expanded, parsed>>
loadVars == <<rulesDir, overridesDir, tagsDir, caseSensitive, fileIdx, tagIdx, tagPreset>>
tagVars == <<tagsList, userTags, activeTags>>
lookupVars == <<lookup, lastSuccess>>
concVars == <<requests, lookedUpCodes>>

(***************************************************************************)
(* Bounds                                                                  *)
(***************************************************************************)
MaxRequests == 2   \* requests handled in one run
MaxRules == 2      \* rules in a rule list passed directly to removeDuplicateRules
MaxDepth == 5      \* nested activations of expandIncludes
MaxInflight == 2   \* handler runs that overlap

(***************************************************************************)
(* Generic helpers                                                         *)
(***************************************************************************)
NoKeys == [k \in {} |-> ""]

\* a ?? b on a keyed lookup: m[k] when the key is present, else the default
Has(m, k) == k \in DOMAIN m

\* { ...a, ...b }
Spread(a, b) ==
    [k \in (DOMAIN a) \cup (DOMAIN b) |-> IF k \in DOMAIN b THEN b[k] ELSE a[k]]

RECURSIVE Flatten(_)
Flatten(ss) == IF ss = <<>> THEN <<>> ELSE Head(ss) \o Flatten(Tail(ss))

Range(s) == {s[i] : i \in 1..Len(s)}

(***************************************************************************)
(* Data: rule objects, rule directories, upstream documents                *)
(***************************************************************************)
\* XrayRule objects; ip and domain are optional keys
IpRule(ips, tag) == [type |-> "field", ip |-> ips, outboundTag |-> tag]
DomainRule(domains, tag) == [type |-> "field", domain |-> domains, outboundTag |-> tag]
BothRule(domains, ips, tag) ==
    [type |-> "field", domain |-> domains, ip |-> ips, outboundTag |-> tag]
ActionRule(tag) == [type |-> "field", outboundTag |-> tag]

\* TagPreset
TagPreset(base, default, country) ==
    [base |-> base, default |-> default, country |-> country]

\* ReversePreset
ReversePreset(exclude, rs, name) == [exclude |-> exclude, rules |-> rs, name |-> name]

\* The preset stores left by the loading loops for a handful of rule
\* directories.  Layout 1 and 2 are the two BASE/DE scenarios of the
\* specification, layout 3 has every kind of preset, layout 4 is an empty
\* directory, layout 5 has no country preset, layout 6 has rules with both
\* lists, without lists and with values shared between ip and domain lists.
Layouts == <<
    [ rules     |-> [BASE |-> <<IpRule(<<"a">>, "proxy")>>,
                     DE   |-> <<DomainRule(<<"x">>, "proxy")>>],
      overrides |-> NoKeys,
      reverse   |-> <<>>,
      tags      |-> NoKeys ],
    [ rules     |-> [BASE |-> <<IpRule(<<"a">>, "proxy"), IpRule(<<"a">>, "proxy")>>,
                     DE   |-> <<IpRule(<<"a">>, "proxy")>>],
      overrides |-> NoKeys,
      reverse   |-> <<>>,
      tags      |-> NoKeys ],
    [ rules     |-> [BASE    |-> <<IpRule(<<"a">>, "proxy")>>,
                     DEFAULT |-> <<DomainRule(<<"dflt">>, "proxy")>>,
                     EU      |-> <<DomainRule(<<"eu">>, "proxy")>>,
                     DE      |-> <<DomainRule(<<"x", "geoip:de">>, "proxy"),
                                   IpRule(<<"a">>, "proxy")>>],
      overrides |-> [DEFAULT |-> [log |-> [loglevel |-> "warning"]],
                     DE      |-> [remarks |-> "o", dns |-> "d1"]],
      reverse   |-> <<ReversePreset({"DE"}, <<DomainRule(<<"r1">>, "proxy")>>, "!de"),
                      ReversePreset({"FR", "US"},
                                    <<IpRule(<<"r2", "a">>, "block")>>, "!fr,us")>>,
      tags      |-> [streaming |->
                        TagPreset(<<DomainRule(<<"s">>, "proxy")>>,
                                  <<DomainRule(<<"d">>, "proxy")>>,
                                  [US |-> <<DomainRule(<<"u">>, "proxy")>>])] ],
    [ rules     |-> NoKeys,
      overrides |-> NoKeys,
      reverse   |-> <<>>,
      tags      |-> NoKeys ],
    [ rules     |-> [DEFAULT |-> <<IpRule(<<"geoip:private">>, "direct")>>,
                     EU      |-> <<DomainRule(<<"eu">>, "proxy")>>],
      overrides |-> [DEFAULT |-> [log |-> [loglevel |-> "none"], dns |-> "d0"]],
      reverse   |-> <<ReversePreset({"US"}, <<DomainRule(<<"r3">>, "proxy")>>, "!us")>>,
      tags      |-> [streaming |->
                        TagPreset(<<DomainRule(<<"s">>, "proxy")>>,
                                  <<>>,
                                  [US |-> <<DomainRule(<<"u", "s">>, "proxy")>>])] ],
    [ rules     |-> [BASE    |-> <<BothRule(<<"v">>, <<"v", "w">>, "proxy"),
                                   ActionRule("block")>>,
                     DEFAULT |-> <<BothRule(<<"v">>, <<"w">>, "proxy"),
                                   DomainRule(<<>>, "proxy"),
                                   BothRule(<<"v", "y">>, <<"w">>, "direct"),
                                   ActionRule("block")>>],
      overrides |-> [DE |-> [log |-> [loglevel |-> "debug"]]],
      reverse   |-> <<>>,
      tags      |-> NoKeys ]
>>

\* Subscribers, and the tags the panel declares for them (getUserTags)
SubscriptionIds == {"s1", "s2"}
PanelTags == [s1 |-> <<"streaming">>, s2 |-> <<>>]

\* tagsList as parsed from the ?tags= query
QueryTags == {<<>>, <<"streaming">>, <<"vip", "streaming">>}

\* What ipLookup(ip)?.country can be: nothing, or a code in either case
LookupCountries == {"", "de", "US", "EU", "fr"}

\* Upstream documents (res.json())
UpstreamDocs == {
    [outbounds |-> "o1"],
    [remarks |-> "sub", outbounds |-> "o1", log |-> [loglevel |-> "info"],
     routing |-> [domainStrategy |-> "AsIs",
                  rules |-> <<IpRule(<<"up">>, "proxy")>>]] }

\* Names of the upstream response headers (Headers.entries() yields lower case)
UpstreamHeaders == {
    {"profile-update-interval", "content-length", "connection"},
    {"subscription-userinfo", "transfer-encoding"} }

\* Non-success upstream statuses
UpstreamErrorStatuses == {404, 500}

\* Which transform hook createServer was given
Transforms == {"none", "annotate", "throws", "undefined", "annotateThrows"}

\* `res` before fetch has resolved
NoRes == [ok |-> FALSE, status |-> 0, headers |-> {}]

(***************************************************************************)
(* Country data (world-countries) and the same-country rules               *)
(***************************************************************************)
\* String.prototype.toUpperCase on the codes the lookup can return
toUpperCase(s) ==
    CASE s = "de" -> "DE"
      [] s = "us" -> "US"
      [] s = "eu" -> "EU"
      [] s = "fr" -> "FR"
      [] OTHER    -> s

\* String.prototype.toLowerCase on the upper-cased codes
toLowerCase(s) ==
    CASE s = "DE" -> "de"
      [] s = "US" -> "us"
      [] s = "EU" -> "eu"
      [] s = "FR" -> "fr"
      [] OTHER    -> s

\* COUNTRY_TLDS: cca2 -> tld list with the leading dot removed; EU is not a
\* country of the dataset and has no entry
COUNTRY_TLDS == [DE |-> <<"de">>, US |-> <<"us">>, FR |-> <<"fr">>]

\* countries.find((c) => c.cca2 === iso)?.name.common, as it prints inside a
\* template literal
countryName(code) ==
    CASE code = "DE" -> "Germany"
      [] code = "US" -> "United States"
      [] code = "FR" -> "France"
      [] OTHER       -> "undefined"

\* punycode.toASCII: ASCII labels are returned unchanged
toASCII(label) == label

\* buildDomainRule: null (here <<>>, no rule) when there are no tlds
buildDomainRule(tlds) ==
    IF Len(tlds) = 0
    THEN <<>>
    ELSE << [type |-> "field",
             domain |-> [i \in 1..Len(tlds) |-> "domain:" \o toASCII(tlds[i])],
             outboundTag |-> "direct"] >>

\* sameCountryRules without the test that a country was resolved
sameCountryRules_ignoresEmptyCode(code, enabled) ==
    IF enabled
    THEN buildDomainRule(IF Has(COUNTRY_TLDS, code) THEN COUNTRY_TLDS[code] ELSE <<>>)
         \o << [type |-> "field",
                ip |-> <<"geoip:" \o toLowerCase(code)>>,
                outboundTag |-> "direct"] >>
    ELSE <<>>

\* sameCountryRules
sameCountryRules(code, enabled) ==
    IF code # "" /\ enabled
    THEN buildDomainRule(IF Has(COUNTRY_TLDS, code) THEN COUNTRY_TLDS[code] ELSE <<>>)
         \o << [type |-> "field",
                ip |-> <<"geoip:" \o toLowerCase(code)>>,
                outboundTag |-> "direct"] >>
    ELSE <<>>

\* directRules
directRules(url) ==
    IF url # ""
    THEN << [type |-> "field", domain |-> <<"domain:" \o url>>, outboundTag |-> "direct"] >>
    ELSE <<>>

(***************************************************************************)
(* Preset selection                                                        *)
(***************************************************************************)
\* RULE_PRESETS['BASE'] ?? []
baseRules(presets) == IF Has(presets, "BASE") THEN presets["BASE"] ELSE <<>>

\* isEU ? RULE_PRESETS['EU'] ?? [] : []
euRules(presets, code) ==
    IF code = "EU" THEN (IF Has(presets, "EU") THEN presets["EU"] ELSE <<>>) ELSE <<>>

\* RULE_PRESETS[iso] ?? RULE_PRESETS['DEFAULT'] ?? []
countryRules(presets, code) ==
    IF Has(presets, code) THEN presets[code]
    ELSE IF Has(presets, "DEFAULT") THEN presets["DEFAULT"]
    ELSE <<>>

\* reverseRules with the filter inverted: keeps the presets that exclude the code
reverseRules_keepsExcluded(reverse, code) ==
    Flatten([i \in 1..Len(reverse) |->
                IF code \in reverse[i].exclude THEN reverse[i].rules ELSE <<>>])

\* REVERSE_PRESETS.filter((p) => !p.exclude.has(iso)).flatMap((p) => p.rules)
reverseRules(reverse, code) ==
    Flatten([i \in 1..Len(reverse) |->
                IF code \in reverse[i].exclude THEN <<>> ELSE reverse[i].rules])

\* tagRules that appends the default rules after the country rules as well
tagRules_countryThenDefault(tagPresets, tag, code) ==
    IF ~Has(tagPresets, tag)
    THEN <<>>
    ELSE LET preset == tagPresets[tag]
         IN  preset.base
             \o (IF Has(preset.country, code) THEN preset.country[code] ELSE <<>>)
             \o preset.default

\* the callback of activeTags.flatMap
tagRules(tagPresets, tag, code) ==
    IF ~Has(tagPresets, tag)
    THEN <<>>
    ELSE LET preset == tagPresets[tag]
             tagCountryRules == IF Has(preset.country, code)
                                THEN preset.country[code]
                                ELSE preset.default
         IN  preset.base \o tagCountryRules

\* activeTags.flatMap(...)
tagsRules(tagPresets, tags, code) ==
    Flatten([i \in 1..Len(tags) |-> tagRules(tagPresets, tags[i], code)])

\* assembleRules with the reverse presets spread after the EU preset
assembleRules_reverseAfterEu(presets, reverse, tagPresets, tags, code, enabled, url) ==
    directRules(url)
    \o baseRules(presets)
    \o tagsRules(tagPresets, tags, code)
    \o sameCountryRules(code, enabled)
    \o euRules(presets, code)
    \o reverseRules(reverse, code)
    \o countryRules(presets, code)

\* const rules = [...directRules, ...baseRules, ...tagsRules,
\*                ...sameCountryRules, ...reverseRules, ...euRules, ...countryRules]
assembleRules(presets, reverse, tagPresets, tags, code, enabled, url) ==
    directRules(url)
    \o baseRules(presets)
    \o tagsRules(tagPresets, tags, code)
    \o sameCountryRules(code, enabled)
    \o reverseRules(reverse, code)
    \o euRules(presets, code)
    \o countryRules(presets, code)

(***************************************************************************)
(* Document merge                                                          *)
(***************************************************************************)
\* selectOverride that prefers the DEFAULT override to the country's
selectOverride_defaultFirst(overrides, code) ==
    IF Has(overrides, "DEFAULT") THEN overrides["DEFAULT"]
    ELSE IF Has(overrides, code) THEN overrides[code]
    ELSE NoKeys

\* OVERRIDE_PRESETS[iso] ?? OVERRIDE_PRESETS['DEFAULT'] ?? {}
selectOverride(overrides, code) ==
    IF Has(overrides, code) THEN overrides[code]
    ELSE IF Has(overrides, "DEFAULT") THEN overrides["DEFAULT"]
    ELSE NoKeys

\* `${original.remarks}${iso ? ` (${name})` : ''}`; a missing property
\* prints as undefined
mergedRemarks(doc, code) ==
    (IF Has(doc, "remarks") THEN doc.remarks ELSE "undefined")
    \o (IF code # "" THEN " (" \o countryName(code) \o ")" ELSE "")

\* mergeDocument with the two spreads exchanged: { ...override, ...original, ... }
mergeDocument_upstreamWins(doc, override, code, ruleList) ==
    Spread(Spread(override, doc),
           [remarks |-> mergedRemarks(doc, code),
            routing |-> [domainStrategy |-> "IPIfNonMatch", rules |-> ruleList]])

\* const merged = { ...original, ...override, remarks, routing }
mergeDocument(doc, override, code, ruleList) ==
    Spread(Spread(doc, override),
           [remarks |-> mergedRemarks(doc, code),
            routing |-> [domainStrategy |-> "IPIfNonMatch", rules |-> ruleList]])

(***************************************************************************)
(* removeDuplicateRules                                                    *)
(***************************************************************************)
\* filterSeen written as removal during iteration: after a removed value the
\* next value is stepped over without being tested
RECURSIVE filterSeen_skipsAfterRemoval(_, _)
filterSeen_skipsAfterRemoval(list, seen) ==
    IF Len(list) = 0
    THEN [kept |-> <<>>, seen |-> seen]
    ELSE IF Head(list) \in seen
         THEN IF Len(list) = 1
              THEN [kept |-> <<>>, seen |-> seen]
              ELSE LET rest == filterSeen_skipsAfterRemoval(Tail(Tail(list)),
                                                            seen \cup {list[2]})
                   IN  [kept |-> <<list[2]>> \o rest.kept, seen |-> rest.seen]
         ELSE LET rest == filterSeen_skipsAfterRemoval(Tail(list), seen \cup {Head(list)})
              IN  [kept |-> <<Head(list)>> \o rest.kept, seen |-> rest.seen]

\* filterSeen collecting the surviving values back to front
RECURSIVE filterSeen_reversesKept(_, _)
filterSeen_reversesKept(list, seen) ==
    IF Len(list) = 0
    THEN [kept |-> <<>>, seen |-> seen]
    ELSE IF Head(list) \in seen
         THEN filterSeen_reversesKept(Tail(list), seen)
         ELSE LET rest == filterSeen_reversesKept(Tail(list), seen \cup {Head(list)})
              IN  [kept |-> rest.kept \o <<Head(list)>>, seen |-> rest.seen]

\* list.filter((v) => { if (seenRules.has(v)) return false;
\*                      seenRules.add(v); return true; })
\* returns the surviving values and the grown set
RECURSIVE filterSeen(_, _)
filterSeen(list, seen) ==
    IF Len(list) = 0
    THEN [kept |-> <<>>, seen |-> seen]
    ELSE IF Head(list) \in seen
         THEN filterSeen(Tail(list), seen)
         ELSE LET rest == filterSeen(Tail(list), seen \cup {Head(list)})
              IN  [kept |-> <<Head(list)>> \o rest.kept, seen |-> rest.seen]

\* dedupLoop skipping every rule that has no value left, whether or not it
\* had a list to begin with
RECURSIVE dedupLoop_dropsListless(_, _)
dedupLoop_dropsListless(ruleList, seenRules) ==
    IF Len(ruleList) = 0
    THEN <<>>
    ELSE LET rule == Head(ruleList)
             hadDomains == Has(rule, "domain")
             hadIps == Has(rule, "ip")
             fd == IF hadDomains THEN filterSeen(rule.domain, seenRules)
                   ELSE [kept |-> <<>>, seen |-> seenRules]
             fi == IF hadIps THEN filterSeen(rule.ip, fd.seen)
                   ELSE [kept |-> <<>>, seen |-> fd.seen]
             rule1 == IF hadDomains THEN [rule EXCEPT !.domain = fd.kept] ELSE rule
             rule2 == IF hadIps THEN [rule1 EXCEPT !.ip = fi.kept] ELSE rule1
             hasDomainsNow == hadDomains /\ Len(fd.kept) > 0
             hasIpsNow == hadIps /\ Len(fi.kept) > 0
         IN  IF ~hasDomainsNow /\ ~hasIpsNow
             THEN dedupLoop_dropsListless(Tail(ruleList), fi.seen)
             ELSE <<rule2>> \o dedupLoop_dropsListless(Tail(ruleList), fi.seen)

\* dedupLoop with the ip filter started from the values seen before this
\* rule, so that the rule's own domain values are not yet known to it
RECURSIVE dedupLoop_ipIgnoresOwnDomains(_, _)
dedupLoop_ipIgnoresOwnDomains(ruleList, seenRules) ==
    IF Len(ruleList) = 0
    THEN <<>>
    ELSE LET rule == Head(ruleList)
             hadDomains == Has(rule, "domain")
             hadIps == Has(rule, "ip")
             fd == IF hadDomains THEN filterSeen(rule.domain, seenRules)
                   ELSE [kept |-> <<>>, seen |-> seenRules]
             fi == IF hadIps THEN filterSeen(rule.ip, seenRules)
                   ELSE [kept |-> <<>>, seen |-> seenRules]
             rule1 == IF hadDomains THEN [rule EXCEPT !.domain = fd.kept] ELSE rule
             rule2 == IF hadIps THEN [rule1 EXCEPT !.ip = fi.kept] ELSE rule1
             hasDomainsNow == hadDomains /\ Len(fd.kept) > 0
             hasIpsNow == hadIps /\ Len(fi.kept) > 0
         IN  IF (hadDomains \/ hadIps) /\ ~hasDomainsNow /\ ~hasIpsNow
             THEN dedupLoop_ipIgnoresOwnDomains(Tail(ruleList), fd.seen \cup fi.seen)
             ELSE <<rule2>>
                  \o dedupLoop_ipIgnoresOwnDomains(Tail(ruleList), fd.seen \cup fi.seen)

\* the body of `for (const originalRule of rules)`; each rule is a deep copy
\* (JSON.parse(JSON.stringify(originalRule))), which for JSON values is an
\* equal value that shares nothing with the original
RECURSIVE dedupLoop(_, _)
dedupLoop(ruleList, seenRules) ==
    IF Len(ruleList) = 0
    THEN <<>>
    ELSE LET rule == Head(ruleList)
             hadDomains == Has(rule, "domain")
             hadIps == Has(rule, "ip")
             fd == IF hadDomains THEN filterSeen(rule.domain, seenRules)
                   ELSE [kept |-> <<>>, seen |-> seenRules]
             fi == IF hadIps THEN filterSeen(rule.ip, fd.seen)
                   ELSE [kept |-> <<>>, seen |-> fd.seen]
             rule1 == IF hadDomains THEN [rule EXCEPT !.domain = fd.kept] ELSE rule
             rule2 == IF hadIps THEN [rule1 EXCEPT !.ip = fi.kept] ELSE rule1
             hasDomainsNow == hadDomains /\ Len(fd.kept) > 0
             hasIpsNow == hadIps /\ Len(fi.kept) > 0
         IN  IF (hadDomains \/ hadIps) /\ ~hasDomainsNow /\ ~hasIpsNow
             THEN dedupLoop(Tail(ruleList), fi.seen)
             ELSE <<rule2>> \o dedupLoop(Tail(ruleList), fi.seen)

\* removeDuplicateRules(json) for a json that is an object
removeDuplicateRules(json) ==
    IF ~Has(json, "routing") \/ ~Has(json.routing, "rules")
    THEN json
    ELSE Spread(json,
                [routing |-> Spread(json.routing,
                                    [rules |-> dedupLoop(json.routing.rules, {})])])

\* JSON.stringify(value, null, 2): the pretty-printed text of the value
stringify(value) == [json |-> value, indent |-> 2]

\* The transform hook of the README example: sets log.loglevel and annotates
\* a string remarks, writing into the object it was given and returning it
annotate(json) ==
    Spread(json,
           [log |-> Spread(IF Has(json, "log") THEN json.log ELSE NoKeys,
                           [loglevel |-> "warning"]),
            remarks |-> IF Has(json, "remarks")
                        THEN json.remarks \o " [transformed]"
                        ELSE "undefined"])

\* What the hook's `json.log.loglevel = 'warning'` does to the store: the
\* spread in `merged` copies the override's properties by reference, so when
\* the selected override has a log object, merged.log is that object
hookWrites(overrides, code) ==
    LET key == IF Has(overrides, code) THEN code ELSE "DEFAULT" IN
    IF Has(overrides, key) /\ Has(overrides[key], "log")
    THEN [overrides EXCEPT
            ![key] = Spread(@, [log |-> Spread(@.log, [loglevel |-> "warning"])])]
    ELSE overrides

(***************************************************************************)
(* Country resolution                                                      *)
(***************************************************************************)
\* (await ipLookup(ip))?.country?.toUpperCase() || ''
lookedUp(country) == toUpperCase(country)

\* cacheAfter keeping one last-known country for the whole server
cacheAfter_sharedEntry(cache, sub, looked) ==
    IF looked # "" THEN [k \in SubscriptionIds |-> looked] ELSE cache

\* cacheAfter without the test of iso: the empty code is stored as well
cacheAfter_storesEmpty(cache, sub, looked) == (sub :> looked) @@ cache

\* if (iso) USERS_COUNTRY_CACHE.set(subscriptionId, iso)
cacheAfter(cache, sub, looked) ==
    IF looked # "" THEN (sub :> looked) @@ cache ELSE cache

\* if (!iso && USERS_COUNTRY_CACHE.has(subscriptionId)) iso = cache.get(...) || ''
resolveIso(cache, sub, looked) ==
    IF looked # "" THEN looked
    ELSE IF Has(cache, sub) THEN cache[sub]
    ELSE ""

\* a handler run that has not started
NoRun == [pc |-> "idle", subscriptionId |-> "", lookup |-> "", iso |-> ""]

\* no request has been received
ConcurrentAtRest ==
    /\ requests = [r \in 1..MaxInflight |-> NoRun]
    /\ lookedUpCodes = [sub \in SubscriptionIds |-> {}]

\* the hop-by-hop header names that are not forwarded
hopByHop == {"connection", "keep-alive", "proxy-authenticate", "proxy-authorization",
             "te", "trailer", "transfer-encoding", "upgrade"}

\* for (const [k, v] of res.headers.entries()) if (!hopByHop.has(k)) reply.header(k, v)
forwardHeaders(headers) == {k \in headers : k \notin hopByHop}

(***************************************************************************)
(* JSON texts, as sequences of lexical pieces                              *)
(***************************************************************************)
\* Pieces of text: brackets, commas, whitespace ("ws"), object literals
\* ("{}" and o0..o3, which stand for rule objects), a piece that is no JSON
\* ("bad") and the include tokens, each a quoted string "@include <name>"
ObjectTexts == {"{}", "o0", "o1", "o2", "o3"}
IncludeTokens == {"@include a", "@include a.json", "@include b", "@include b.json",
                  "@include c"}

\* the capture group ([A-Za-z0-9._-]+) of a token
tokenName(tok) ==
    CASE tok = "@include a" -> "a"
      [] tok = "@include a.json" -> "a.json"
      [] tok = "@include b" -> "b"
      [] tok = "@include b.json" -> "b.json"
      [] tok = "@include c" -> "c"

\* name.endsWith('.json') ? name : `${name}.json`
fileName(name) == IF name \in {"a.json", "b.json"} THEN name ELSE name \o ".json"

\* join(includesDir, fileName): the files of the includes directory
IncludeFileNames == {"a.json", "b.json", "c.json"}

\* a file of the includes directory: absent, present but failing to read,
\* or present with a text
MissingFile == [exists |-> FALSE, readable |-> FALSE, text |-> <<>>]
UnreadableFile == [exists |-> TRUE, readable |-> FALSE, text |-> <<>>]
TextFile(text) == [exists |-> TRUE, readable |-> TRUE, text |-> text]

\* texts of include files: one object, an array that includes a.json, a
\* lone include of b.json, two siblings ending in an include of c.json, and
\* a text that is no JSON
IncludeTexts == {
    <<"ws", "o1", "ws">>,
    <<"[", "o2", ",", "@include a", "]", "ws">>,
    <<"@include b.json">>,
    <<"o3", ",", "@include c">>,
    <<"bad">> }

\* texts of rule files
HostTexts == {
    <<"[", "ws", "o0", ",", "@include a", ",", "@include b", "]", "ws">>,
    <<"[", "@include c", "]">>,
    <<"@include a.json">>,
    <<"[", "@include a", ",", "@include a.json", "]">> }

\* String.prototype.trim
RECURSIVE trimStart(_)
trimStart(text) ==
    IF Len(text) > 0 /\ Head(text) = "ws" THEN trimStart(Tail(text)) ELSE text

RECURSIVE trimEnd(_)
trimEnd(text) ==
    IF Len(text) > 0 /\ text[Len(text)] = "ws"
    THEN trimEnd(SubSeq(text, 1, Len(text) - 1))
    ELSE text

trim(text) == trimEnd(trimStart(text))

\* JSON values: an object (named by its text) or an array of values
JsonObject(text) == [array |-> FALSE, leaf |-> text, items |-> <<>>]
JsonArray(items) == [array |-> TRUE, leaf |-> "", items |-> items]
SyntaxError == [ok |-> FALSE, value |-> JsonObject(""), next |-> 0]

\* JSON.parse of the value that starts at piece i (whitespace removed);
\* next is the position after it
RECURSIVE parseValue(_, _)
RECURSIVE parseElements(_, _, _)
parseValue(toks, i) ==
    IF i > Len(toks) THEN SyntaxError
    ELSE IF toks[i] \in ObjectTexts
         THEN [ok |-> TRUE, value |-> JsonObject(toks[i]), next |-> i + 1]
    ELSE IF toks[i] = "["
         THEN IF i + 1 <= Len(toks) /\ toks[i + 1] = "]"
              THEN [ok |-> TRUE, value |-> JsonArray(<<>>), next |-> i + 2]
              ELSE parseElements(toks, i + 1, <<>>)
    ELSE SyntaxError

parseElements(toks, i, acc) ==
    LET v == parseValue(toks, i)
    IN  IF ~v.ok \/ v.next > Len(toks) THEN SyntaxError
        ELSE IF toks[v.next] = ","
             THEN parseElements(toks, v.next + 1, Append(acc, v.value))
        ELSE IF toks[v.next] = "]"
             THEN [ok |-> TRUE, value |-> JsonArray(Append(acc, v.value)),
                   next |-> v.next + 1]
        ELSE SyntaxError

\* JSON.parse(text): throws unless the text is exactly one value
JSONparse(text) ==
    LET toks == SelectSeq(text, LAMBDA t : t # "ws")
        v == parseValue(toks, 1)
    IN  IF v.ok /\ v.next = Len(toks) + 1
        THEN [ok |-> TRUE, value |-> v.value]
        ELSE [ok |-> FALSE, value |-> JsonObject("")]

\* flattenRuleArray without the recursion: arr.flat()
flattenRuleArray_oneLevel(arr) ==
    LET flat[n \in 0..Len(arr)] ==
            IF n = 0 THEN <<>>
            ELSE flat[n - 1] \o (IF arr[n].array THEN arr[n].items ELSE <<arr[n]>>)
    IN  flat[Len(arr)]

\* flattenRuleArray(arr)
RECURSIVE flattenRuleArray(_)
flattenRuleArray(arr) ==
    IF Len(arr) = 0 THEN <<>>
    ELSE (IF Head(arr).array THEN flattenRuleArray(Head(arr).items) ELSE <<Head(arr)>>)
         \o flattenRuleArray(Tail(arr))

\* the part of parseWithIncludes after the expansion
parseExpanded(text, wantArray) ==
    LET p == JSONparse(text)
    IN  IF p.ok /\ wantArray /\ p.value.array
        THEN [ok |-> TRUE, value |-> JsonArray(flattenRuleArray(p.value.items))]
        ELSE p

\* parseWithIncludes before it is called
NoParse == [ok |-> FALSE, value |-> JsonObject("")]

IncludeAtRest ==
    /\ includesDir = [f \in IncludeFileNames |-> MissingFile]
    /\ raw = <<>>
    /\ expectArray = FALSE
    /\ seenPaths = {}
    /\ frames = <<>>
    /\ expanded = <<>>
    /\ parsed = NoParse

(***************************************************************************)
(* The directories read at startup                                         *)
(***************************************************************************)
\* What parseWithIncludes does with a file: returns its value ("ok"), or
\* throws because readFileSync fails ("unreadable") or because JSON.parse
\* fails ("unparsable")
FileStates == {"ok", "unreadable", "unparsable"}

\* f.endsWith('.json')
endsWithJson(name) ==
    name \in {"base.json", "default.json", "de.json", "us.json", "!fr,us.json", "BASE.json"}

\* parse(file).name.toUpperCase()
presetCode(name) ==
    CASE name = "base.json" -> "BASE"
      [] name = "default.json" -> "DEFAULT"
      [] name = "de.json" -> "DE"
      [] name = "us.json" -> "US"
      [] name = "!fr,us.json" -> "!FR,US"
      [] name = "BASE.json" -> "BASE"

\* baseName.startsWith('!')
startsWithBang(name) == name = "!fr,us.json"

\* baseName.slice(1).split(',').map((s) => s.trim().toUpperCase()).filter(Boolean)
excludeList(name) == CASE name = "!fr,us.json" -> {"FR", "US"}

\* parse(file).name
baseNameOf(name) == CASE name = "!fr,us.json" -> "!fr,us"

\* a file of rules (its one rule names the file) and a file of overrides
RuleFile(name, state) ==
    [name |-> name, state |-> state, value |-> <<IpRule(<<name>>, "proxy")>>]
OverrideFile(name, state) ==
    [name |-> name, state |-> state, value |-> [dns |-> name]]

NoDir == [exists |-> FALSE, files |-> <<>>]
Dir(files) == [exists |-> TRUE, files |-> files]

RulesDirs ==
    {NoDir}
    \cup {Dir(<<RuleFile("base.json", s1), RuleFile("notes.txt", "ok"),
                RuleFile("de.json", s2), RuleFile("!fr,us.json", s3)>>) :
             s1 \in FileStates, s2 \in FileStates, s3 \in FileStates}

OverridesDirs ==
    {NoDir}
    \cup {Dir(<<OverrideFile("default.json", s1), OverrideFile("de.json", s2)>>) :
             s1 \in FileStates, s2 \in FileStates}

\* the entries of a tags directory: a plain file and one tag directory
TagFileLists ==
    {<<>>, <<RuleFile("us.json", "ok")>>,
     <<RuleFile("BASE.json", "ok"), RuleFile("us.json", "ok")>>}
    \cup {<<RuleFile("base.json", s1), RuleFile("default.json", s2),
            RuleFile("notes.txt", "ok"), RuleFile("us.json", s3)>> :
             s1 \in FileStates, s2 \in {"ok", "unparsable"}, s3 \in {"ok", "unreadable"}}

TagsDirs ==
    {NoDir}
    \cup {Dir(<<[name |-> "readme.md", isDirectory |-> FALSE, files |-> <<>>],
                [name |-> "streaming", isDirectory |-> TRUE, files |-> fs]>>) :
             fs \in TagFileLists}

\* readdirSync(dir).filter((f) => f.endsWith('.json'))
jsonFiles(files) == SelectSeq(files, LAMBDA f : endsWithJson(f.name))

\* readdirSync(tagPath).filter((f) => f.endsWith('.json')
\*                                   && !['base.json', 'default.json'].includes(f))
countryFiles(files) ==
    SelectSeq(files, LAMBDA f : endsWithJson(f.name)
                                /\ f.name \notin {"base.json", "default.json"})

\* whether the file system resolves the path `wanted` to the entry `entry`
samePath(entry, wanted) ==
    \/ entry = wanted
    \/ ~caseSensitive /\ entry = "BASE.json" /\ wanted = "base.json"

\* existsSync(join(tagPath, name)) and the file found there
existsIn(files, name) == \E n \in 1..Len(files) : samePath(files[n].name, name)
fileIn(files, name) == files[CHOOSE n \in 1..Len(files) : samePath(files[n].name, name)]

LoadAtRest ==
    /\ rulesDir = NoDir
    /\ overridesDir = NoDir
    /\ tagsDir = NoDir
    /\ caseSensitive = TRUE
    /\ fileIdx = 1
    /\ tagIdx = 1
    /\ tagPreset = TagPreset(<<>>, <<>>, NoKeys)

(***************************************************************************)
(* createServer: the state after the loading loops                         *)
(***************************************************************************)
Init ==
    /\ ConcurrentAtRest
    /\ \E l \in 1..Len(Layouts) :
          /\ RULE_PRESETS = Layouts[l].rules
          /\ OVERRIDE_PRESETS = Layouts[l].overrides
          /\ REVERSE_PRESETS = Layouts[l].reverse
          /\ TAGS_PRESETS = Layouts[l].tags
    /\ directSameCountry \in BOOLEAN
    /\ publicURL \in {"", "vpn.example.com"}
    /\ transform \in Transforms
    /\ USERS_COUNTRY_CACHE = NoKeys
    /\ pc = "idle"
    /\ subscriptionId = ""
    /\ tagsList = <<>>
    /\ userTags = <<>>
    /\ activeTags = <<>>
    /\ lookup = ""
    /\ lastSuccess = [sub \in SubscriptionIds |-> ""]
    /\ iso = ""
    /\ res = NoRes
    /\ original = NoKeys
    /\ replyHeaders = {}
    /\ statusCode = 200
    /\ rules = <<>>
    /\ merged = NoKeys
    /\ transformed = <<>>
    /\ sent = <<>>
    /\ nreq = 0
    /\ callArg = NoKeys
    /\ callResults = <<>>
    /\ IncludeAtRest
    /\ LoadAtRest

(***************************************************************************)
(* The request handler                                                     *)
(***************************************************************************)
\* Receive with the active tags made unique: [...new Set([...tagsList, ...userTags])]
Receive_dedupTags(sub, queryTags) ==
    /\ pc \in {"idle", "done"}
    /\ nreq < MaxRequests
    /\ nreq' = nreq + 1
    /\ subscriptionId' = sub
    /\ tagsList' = queryTags
    /\ userTags' = PanelTags[sub]
    /\ activeTags' = filterSeen(tagsList' \o userTags', {}).kept
    /\ lookup' = ""
    /\ iso' = ""
    /\ res' = NoRes
    /\ original' = NoKeys
    /\ replyHeaders' = {}
    /\ statusCode' = 200
    /\ rules' = <<>>
    /\ merged' = NoKeys
    /\ transformed' = <<>>
    /\ sent' = <<>>
    /\ pc' = "lookup"
    /\ UNCHANGED <<concVars, loadVars, includeVars, callVars, storeVars, configVars, USERS_COUNTRY_CACHE, lastSuccess>>

\* Entry up to `await ipLookup(ip)`: reads the parameters and the tags
Receive(sub, queryTags) ==
    /\ pc \in {"idle", "done"}
    /\ nreq < MaxRequests
    /\ nreq' = nreq + 1
    /\ subscriptionId' = sub
    /\ tagsList' = queryTags
    /\ userTags' = PanelTags[sub]
    /\ activeTags' = tagsList' \o userTags'
    /\ lookup' = ""
    /\ iso' = ""
    /\ res' = NoRes
    /\ original' = NoKeys
    /\ replyHeaders' = {}
    /\ statusCode' = 200
    /\ rules' = <<>>
    /\ merged' = NoKeys
    /\ transformed' = <<>>
    /\ sent' = <<>>
    /\ pc' = "lookup"
    /\ UNCHANGED <<concVars, loadVars, includeVars, callVars, storeVars, configVars, USERS_COUNTRY_CACHE, lastSuccess>>

\* The lookup resolved (possibly to nothing): cache write, cache fallback,
\* up to `await fetch(...)`
LookupReturn(country) ==
    /\ pc = "lookup"
    /\ USERS_COUNTRY_CACHE' = cacheAfter(USERS_COUNTRY_CACHE, subscriptionId, lookedUp(country))
    /\ iso' = resolveIso(USERS_COUNTRY_CACHE', subscriptionId, lookedUp(country))
    /\ lookup' = country
    /\ lastSuccess' = IF country # ""
                      THEN [lastSuccess EXCEPT ![subscriptionId] = country]
                      ELSE lastSuccess
    /\ pc' = "fetch"
    /\ UNCHANGED <<concVars, loadVars, includeVars, callVars, storeVars, configVars, subscriptionId, tagVars, res, original,
                   replyHeaders, statusCode, rules, merged, transformed, sent, nreq>>

\* The lookup threw: iso stays '', then the cache fallback
LookupThrow ==
    /\ pc = "lookup"
    /\ USERS_COUNTRY_CACHE' = cacheAfter(USERS_COUNTRY_CACHE, subscriptionId, "")
    /\ iso' = resolveIso(USERS_COUNTRY_CACHE', subscriptionId, "")
    /\ pc' = "fetch"
    /\ UNCHANGED <<concVars, loadVars, includeVars, callVars, storeVars, configVars, subscriptionId, tagVars, lookupVars,
                   res, original,
                   replyHeaders, statusCode, rules, merged, transformed, sent, nreq>>

\* FetchNotOk answering every failed fetch alike: reply.code(502)
FetchNotOk_always502(status) ==
    /\ pc = "fetch"
    /\ res' = [ok |-> FALSE, status |-> status, headers |-> {}]
    /\ statusCode' = 502
    /\ sent' = Append(sent, [error |-> "upstream_error"])
    /\ pc' = "done"
    /\ UNCHANGED <<concVars, loadVars, includeVars, callVars, storeVars, configVars, USERS_COUNTRY_CACHE, subscriptionId,
                   tagVars, lookupVars, iso, original, replyHeaders, rules, merged,
                   transformed, nreq>>

\* !res.ok: reply.code(res.status).send({ error: 'upstream_error' })
FetchNotOk(status) ==
    /\ pc = "fetch"
    /\ res' = [ok |-> FALSE, status |-> status, headers |-> {}]
    /\ statusCode' = res'.status
    /\ sent' = Append(sent, [error |-> "upstream_error"])
    /\ pc' = "done"
    /\ UNCHANGED <<concVars, loadVars, includeVars, callVars, storeVars, configVars, USERS_COUNTRY_CACHE, subscriptionId,
                   tagVars, lookupVars, iso, original, replyHeaders, rules, merged,
                   transformed, nreq>>

\* fetch rejected: reply.code(502).send({ error: 'bad_gateway' })
FetchThrow ==
    /\ pc = "fetch"
    /\ res' = NoRes
    /\ statusCode' = 502
    /\ sent' = Append(sent, [error |-> "bad_gateway"])
    /\ pc' = "done"
    /\ UNCHANGED <<concVars, loadVars, includeVars, callVars, storeVars, configVars, USERS_COUNTRY_CACHE, subscriptionId,
                   tagVars, lookupVars, iso, original, replyHeaders, rules, merged,
                   transformed, nreq>>

\* The upstream answered ok but res.json() rejected: the same catch block
JsonThrow(headers) ==
    /\ pc = "fetch"
    /\ res' = [ok |-> TRUE, status |-> 200, headers |-> headers]
    /\ statusCode' = 502
    /\ sent' = Append(sent, [error |-> "bad_gateway"])
    /\ pc' = "done"
    /\ UNCHANGED <<concVars, loadVars, includeVars, callVars, storeVars, configVars, USERS_COUNTRY_CACHE, subscriptionId,
                   tagVars, lookupVars, iso, original, replyHeaders, rules, merged,
                   transformed, nreq>>

\* The upstream answered with a document: forward headers, assemble the
\* rules, merge; without a hook send the merged document, with a hook
\* suspend at `await transform(merged, iso)`
FetchOk(doc, headers) ==
    /\ pc = "fetch"
    /\ res' = [ok |-> TRUE, status |-> 200, headers |-> headers]
    /\ original' = doc
    /\ replyHeaders' = forwardHeaders(headers)
    /\ rules' = assembleRules(RULE_PRESETS, REVERSE_PRESETS, TAGS_PRESETS,
                              activeTags, iso, directSameCountry, publicURL)
    /\ merged' = mergeDocument(doc, selectOverride(OVERRIDE_PRESETS, iso), iso, rules')
    /\ IF transform = "none"
       THEN /\ sent' = Append(sent, stringify(merged'))
            /\ pc' = "done"
       ELSE /\ sent' = sent
            /\ pc' = "transform"
    /\ UNCHANGED <<concVars, loadVars, includeVars, callVars, storeVars, configVars, USERS_COUNTRY_CACHE, subscriptionId,
                   tagVars, lookupVars, iso, statusCode, transformed, nreq>>

\* The hook returned a document: deduplicate and send it, then fall out of
\* the if and send the merged document
TransformReturn ==
    /\ pc = "transform"
    /\ transform = "annotate"
    /\ transformed' = <<annotate(merged)>>
    /\ merged' = annotate(merged)
    /\ OVERRIDE_PRESETS' = hookWrites(OVERRIDE_PRESETS, iso)
    /\ sent' = sent \o <<stringify(removeDuplicateRules(transformed'[1])),
                         stringify(merged')>>
    /\ pc' = "done"
    /\ UNCHANGED <<concVars, loadVars, includeVars, callVars, RULE_PRESETS, REVERSE_PRESETS, TAGS_PRESETS,
                   configVars, USERS_COUNTRY_CACHE, subscriptionId,
                   tagVars, lookupVars, iso, res, original, replyHeaders, statusCode,
                   rules, nreq>>

\* The hook threw or rejected: the catch block deduplicates and sends the
\* merged document, then the handler sends the merged document
TransformThrow ==
    /\ pc = "transform"
    /\ transform = "throws"
    /\ sent' = sent \o <<stringify(removeDuplicateRules(merged)), stringify(merged)>>
    /\ pc' = "done"
    /\ UNCHANGED <<concVars, loadVars, includeVars, callVars, storeVars, configVars, USERS_COUNTRY_CACHE, subscriptionId,
                   tagVars, lookupVars, iso, res, original, replyHeaders, statusCode,
                   rules, merged, transformed, nreq>>

\* The hook wrote into the object it was given (as the README example does)
\* and then threw: the catch block deduplicates and sends `merged`, which is
\* that same object
TransformMutateThrow ==
    /\ pc = "transform"
    /\ transform = "annotateThrows"
    /\ merged' = annotate(merged)
    /\ OVERRIDE_PRESETS' = hookWrites(OVERRIDE_PRESETS, iso)
    /\ sent' = sent \o <<stringify(removeDuplicateRules(merged')), stringify(merged')>>
    /\ pc' = "done"
    /\ UNCHANGED <<concVars, loadVars, includeVars, callVars, RULE_PRESETS, REVERSE_PRESETS, TAGS_PRESETS,
                   configVars, USERS_COUNTRY_CACHE, subscriptionId,
                   tagVars, lookupVars, iso, res, original, replyHeaders, statusCode,
                   rules, transformed, nreq>>

\* TransformUndefined with removeDuplicateRules(transformed) outside the try:
\* the TypeError reaches the framework, which answers 500
TransformUndefined_uncaught ==
    /\ pc = "transform"
    /\ transform = "undefined"
    /\ transformed' = <<>>
    /\ statusCode' = 500
    /\ sent' = Append(sent, [error |-> "Internal Server Error"])
    /\ pc' = "done"
    /\ UNCHANGED <<concVars, loadVars, includeVars, callVars, storeVars, configVars, USERS_COUNTRY_CACHE, subscriptionId,
                   tagVars, lookupVars, iso, res, original, replyHeaders,
                   rules, merged, nreq>>

\* The hook returned undefined: removeDuplicateRules(undefined) throws on
\* json.routing inside the try, so the catch block runs as above
TransformUndefined ==
    /\ pc = "transform"
    /\ transform = "undefined"
    /\ transformed' = <<>>
    /\ sent' = sent \o <<stringify(removeDuplicateRules(merged)), stringify(merged)>>
    /\ pc' = "done"
    /\ UNCHANGED <<concVars, loadVars, includeVars, callVars, storeVars, configVars, USERS_COUNTRY_CACHE, subscriptionId,
                   tagVars, lookupVars, iso, res, original, replyHeaders, statusCode,
                   rules, merged, nreq>>

Next ==
    \/ \E sub \in SubscriptionIds, queryTags \in QueryTags : Receive(sub, queryTags)
    \/ \E country \in LookupCountries : LookupReturn(country)
    \/ LookupThrow
    \/ \E status \in UpstreamErrorStatuses : FetchNotOk(status)
    \/ FetchThrow
    \/ \E headers \in UpstreamHeaders : JsonThrow(headers)
    \/ \E doc \in UpstreamDocs, headers \in UpstreamHeaders : FetchOk(doc, headers)
    \/ TransformReturn
    \/ TransformThrow
    \/ TransformMutateThrow
    \/ TransformUndefined

Spec == Init /\ [][Next]_vars

(***************************************************************************)
(* What the client receives                                                *)
(***************************************************************************)
\* The first reply.send of a run produces the response; a later send on the
\* same reply is discarded by the server framework
Responded == pc = "done" /\ Len(sent) > 0
responseBody == sent[1]

\* The handler got past the upstream fetch and built a document
Composed == pc \in {"transform", "done"} /\ statusCode = 200 /\ Has(merged, "routing")

(***************************************************************************)
(* removeDuplicateRules called directly on every small document            *)
(***************************************************************************)
MatchValues == {"a", "b"}
ValueLists ==
    {<<>>} \cup {<<v>> : v \in MatchValues}
    \cup {<<"a", w>> : w \in MatchValues} \cup {<<"b", "a">>}
CallRules ==
    {ActionRule("proxy")}
    \cup {DomainRule(d, "proxy") : d \in ValueLists}
    \cup {IpRule(i, "proxy") : i \in ValueLists}
    \cup {BothRule(d, i, "proxy") : d \in ValueLists, i \in ValueLists}
CallRuleLists == UNION {[1..n -> CallRules] : n \in 0..MaxRules}
CallDocs ==
    {[routing |-> [domainStrategy |-> "IPIfNonMatch", rules |-> rs]] : rs \in CallRuleLists}
    \cup {[remarks |-> "sub"], [routing |-> [domainStrategy |-> "AsIs"]]}

InitCall ==
    /\ ConcurrentAtRest
    /\ RULE_PRESETS = NoKeys
    /\ OVERRIDE_PRESETS = NoKeys
    /\ REVERSE_PRESETS = <<>>
    /\ TAGS_PRESETS = NoKeys
    /\ directSameCountry = TRUE
    /\ publicURL = ""
    /\ transform = "none"
    /\ USERS_COUNTRY_CACHE = NoKeys
    /\ pc = "call"
    /\ subscriptionId = ""
    /\ tagsList = <<>>
    /\ userTags = <<>>
    /\ activeTags = <<>>
    /\ lookup = ""
    /\ lastSuccess = [sub \in SubscriptionIds |-> ""]
    /\ iso = ""
    /\ res = NoRes
    /\ original = NoKeys
    /\ replyHeaders = {}
    /\ statusCode = 200
    /\ rules = <<>>
    /\ merged = NoKeys
    /\ transformed = <<>>
    /\ sent = <<>>
    /\ nreq = 0
    /\ callArg \in CallDocs
    /\ callResults = <<>>
    /\ IncludeAtRest
    /\ LoadAtRest

\* removeDuplicateRules applied to the argument, then to its own result
CallRemoveDuplicateRules ==
    /\ pc = "call"
    /\ Len(callResults) < 2
    /\ callResults' = Append(callResults,
                             removeDuplicateRules(IF Len(callResults) = 0
                                                  THEN callArg
                                                  ELSE callResults[Len(callResults)]))
    /\ UNCHANGED <<concVars, loadVars, includeVars, storeVars, configVars, USERS_COUNTRY_CACHE, pc,
                   subscriptionId, tagVars, lookupVars, iso, res, original,
                   replyHeaders, statusCode, rules, merged, transformed, sent, nreq,
                   callArg>>

NextCall == CallRemoveDuplicateRules

SpecCall == InitCall /\ [][NextCall]_vars

(***************************************************************************)
(* parseWithIncludes, one step per piece of text                           *)
(***************************************************************************)
\* no request has been handled and nothing is configured
HandlerAtRest ==
    /\ directSameCountry = TRUE
    /\ publicURL = ""
    /\ transform = "none"
    /\ USERS_COUNTRY_CACHE = NoKeys
    /\ subscriptionId = ""
    /\ tagsList = <<>>
    /\ userTags = <<>>
    /\ activeTags = <<>>
    /\ lookup = ""
    /\ lastSuccess = [sub \in SubscriptionIds |-> ""]
    /\ iso = ""
    /\ res = NoRes
    /\ original = NoKeys
    /\ replyHeaders = {}
    /\ statusCode = 200
    /\ rules = <<>>
    /\ merged = NoKeys
    /\ transformed = <<>>
    /\ sent = <<>>
    /\ nreq = 0
    /\ callArg = NoKeys
    /\ callResults = <<>>

handlerVars == <<configVars, USERS_COUNTRY_CACHE, subscriptionId, tagVars, lookupVars,
                 iso, res, original, replyHeaders, statusCode, rules, merged,
                 transformed, sent, nreq, callVars>>

\* parseWithIncludes(filePath, expectArray) has read the file and calls
\* expandIncludes(raw) with a fresh `seen`
InitInclude ==
    /\ ConcurrentAtRest
    /\ RULE_PRESETS = NoKeys
    /\ OVERRIDE_PRESETS = NoKeys
    /\ REVERSE_PRESETS = <<>>
    /\ TAGS_PRESETS = NoKeys
    /\ HandlerAtRest
    /\ pc = "expand"
    /\ includesDir \in [IncludeFileNames ->
                           {MissingFile, UnreadableFile} \cup {TextFile(t) : t \in IncludeTexts}]
    /\ raw \in HostTexts
    /\ expectArray \in BOOLEAN
    /\ seenPaths = {}
    /\ frames = <<[path |-> "", rest |-> raw, out |-> <<>>]>>
    /\ expanded = <<>>
    /\ parsed = NoParse
    /\ LoadAtRest

\* the activation that is running and the piece it looks at
top == frames[Len(frames)]
AtToken == pc = "expand" /\ Len(top.rest) > 0 /\ Head(top.rest) \in IncludeTokens
fullPath == fileName(tokenName(Head(top.rest)))

\* the running activation goes on to its next piece, having produced `text`
Emit(text) ==
    [frames EXCEPT ![Len(frames)] =
        [path |-> top.path, rest |-> Tail(top.rest), out |-> top.out \o text]]

\* text outside a match is copied by String.prototype.replace
CopyText ==
    /\ pc = "expand"
    /\ Len(top.rest) > 0
    /\ Head(top.rest) \notin IncludeTokens
    /\ frames' = Emit(<<Head(top.rest)>>)
    /\ UNCHANGED <<concVars, loadVars, storeVars, handlerVars, pc, includesDir, raw, expectArray, seenPaths,
                   expanded, parsed>>

\* IncludeSeen without the test of `seen`: the file is expanded again
IncludeSeen_recurses ==
    /\ AtToken
    /\ fullPath \in seenPaths
    /\ Len(frames) < MaxDepth
    /\ frames' = Append(frames, [path |-> fullPath, rest |-> includesDir[fullPath].text,
                                 out |-> <<>>])
    /\ UNCHANGED <<concVars, loadVars, storeVars, handlerVars, pc, includesDir, raw, expectArray, seenPaths,
                   expanded, parsed>>

\* if (seen.has(fullPath)) return '{}'
IncludeSeen ==
    /\ AtToken
    /\ fullPath \in seenPaths
    /\ frames' = Emit(<<"{}">>)
    /\ UNCHANGED <<concVars, loadVars, storeVars, handlerVars, pc, includesDir, raw, expectArray, seenPaths,
                   expanded, parsed>>

\* IncludeMissing returning the match itself, so that the token stays
IncludeMissing_keepsToken ==
    /\ AtToken
    /\ fullPath \notin seenPaths
    /\ ~includesDir[fullPath].exists
    /\ frames' = Emit(<<Head(top.rest)>>)
    /\ UNCHANGED <<concVars, loadVars, storeVars, handlerVars, pc, includesDir, raw, expectArray, seenPaths,
                   expanded, parsed>>

\* if (!existsSync(fullPath)) return '{}'
IncludeMissing ==
    /\ AtToken
    /\ fullPath \notin seenPaths
    /\ ~includesDir[fullPath].exists
    /\ frames' = Emit(<<"{}">>)
    /\ UNCHANGED <<concVars, loadVars, storeVars, handlerVars, pc, includesDir, raw, expectArray, seenPaths,
                   expanded, parsed>>

\* IncludeReadFails without the try/catch: the error leaves expandIncludes
\* and parseWithIncludes throws
IncludeReadFails_propagates ==
    /\ AtToken
    /\ fullPath \notin seenPaths
    /\ includesDir[fullPath].exists
    /\ ~includesDir[fullPath].readable
    /\ seenPaths' = seenPaths \cup {fullPath}
    /\ frames' = <<>>
    /\ parsed' = [ok |-> FALSE, value |-> JsonObject("")]
    /\ pc' = "parsed"
    /\ UNCHANGED <<concVars, loadVars, storeVars, handlerVars, includesDir, raw, expectArray, expanded>>

\* seen.add(fullPath); readFileSync throws; catch: return '{}'
\* (seen.delete is not reached)
IncludeReadFails ==
    /\ AtToken
    /\ fullPath \notin seenPaths
    /\ includesDir[fullPath].exists
    /\ ~includesDir[fullPath].readable
    /\ seenPaths' = seenPaths \cup {fullPath}
    /\ frames' = Emit(<<"{}">>)
    /\ UNCHANGED <<concVars, loadVars, storeVars, handlerVars, pc, includesDir, raw, expectArray,
                   expanded, parsed>>

\* seen.add(fullPath); content = readFileSync(fullPath);
\* expandIncludes(content, seen) is entered
IncludeEnter ==
    /\ AtToken
    /\ fullPath \notin seenPaths
    /\ includesDir[fullPath].exists
    /\ includesDir[fullPath].readable
    /\ Len(frames) < MaxDepth
    /\ seenPaths' = seenPaths \cup {fullPath}
    /\ frames' = Append(frames, [path |-> fullPath, rest |-> includesDir[fullPath].text,
                                 out |-> <<>>])
    /\ UNCHANGED <<concVars, loadVars, storeVars, handlerVars, pc, includesDir, raw, expectArray,
                   expanded, parsed>>

\* IncludeReturn without seen.delete(fullPath): the file stays marked
IncludeReturn_keepsMark ==
    /\ pc = "expand"
    /\ Len(frames) > 1
    /\ Len(top.rest) = 0
    /\ frames' = [SubSeq(frames, 1, Len(frames) - 1) EXCEPT ![Len(frames) - 1] =
                     [path |-> frames[Len(frames) - 1].path,
                      rest |-> Tail(frames[Len(frames) - 1].rest),
                      out |-> frames[Len(frames) - 1].out \o trim(top.out)]]
    /\ UNCHANGED <<concVars, loadVars, storeVars, handlerVars, pc, includesDir, raw, expectArray,
                   seenPaths, expanded, parsed>>

\* the inner expandIncludes returns: seen.delete(fullPath); return content.trim()
IncludeReturn ==
    /\ pc = "expand"
    /\ Len(frames) > 1
    /\ Len(top.rest) = 0
    /\ seenPaths' = seenPaths \ {top.path}
    /\ frames' = [SubSeq(frames, 1, Len(frames) - 1) EXCEPT ![Len(frames) - 1] =
                     [path |-> frames[Len(frames) - 1].path,
                      rest |-> Tail(frames[Len(frames) - 1].rest),
                      out |-> frames[Len(frames) - 1].out \o trim(top.out)]]
    /\ UNCHANGED <<concVars, loadVars, storeVars, handlerVars, pc, includesDir, raw, expectArray,
                   expanded, parsed>>

\* the top-level expandIncludes returns to parseWithIncludes
ExpandReturn ==
    /\ pc = "expand"
    /\ Len(frames) = 1
    /\ Len(top.rest) = 0
    /\ expanded' = top.out
    /\ frames' = <<>>
    /\ pc' = "parse"
    /\ UNCHANGED <<concVars, loadVars, storeVars, handlerVars, includesDir, raw, expectArray, seenPaths,
                   parsed>>

\* JSON.parse(expanded), then flattenRuleArray when an array was expected;
\* a SyntaxError leaves parseWithIncludes
ParseExpanded ==
    /\ pc = "parse"
    /\ parsed' = parseExpanded(expanded, expectArray)
    /\ pc' = "parsed"
    /\ UNCHANGED <<concVars, loadVars, storeVars, handlerVars, includesDir, raw, expectArray, seenPaths,
                   frames, expanded>>

\* a step of expandIncludes
ExpandStep ==
    \/ CopyText
    \/ IncludeSeen
    \/ IncludeMissing
    \/ IncludeReadFails
    \/ IncludeEnter
    \/ IncludeReturn
    \/ ExpandReturn

NextInclude ==
    \/ ExpandStep
    \/ ParseExpanded

SpecInclude == InitInclude /\ [][NextInclude]_vars

(***************************************************************************)
(* createServer: the loading loops, one step per file                      *)
(***************************************************************************)
InitLoad ==
    /\ ConcurrentAtRest
    /\ RULE_PRESETS = NoKeys
    /\ OVERRIDE_PRESETS = NoKeys
    /\ REVERSE_PRESETS = <<>>
    /\ TAGS_PRESETS = NoKeys
    /\ HandlerAtRest
    /\ IncludeAtRest
    /\ pc = "rules"
    /\ rulesDir \in RulesDirs
    /\ overridesDir \in OverridesDirs
    /\ tagsDir \in TagsDirs
    /\ tagsDir.exists => rulesDir.exists    \* tagsDir = join(rulesDir, 'tags')
    /\ caseSensitive \in BOOLEAN
    /\ fileIdx = 1
    /\ tagIdx = 1
    /\ tagPreset = TagPreset(<<>>, <<>>, NoKeys)

diskVars == <<rulesDir, overridesDir, tagsDir, caseSensitive>>

\* LoadRulesFile without the try/catch around parseWithIncludes
LoadRulesFile_uncaught ==
    /\ pc = "rules"
    /\ rulesDir.exists
    /\ fileIdx <= Len(jsonFiles(rulesDir.files))
    /\ LET file == jsonFiles(rulesDir.files)[fileIdx]
       IN  IF file.state # "ok"
           THEN /\ pc' = "failed"
                /\ UNCHANGED <<RULE_PRESETS, REVERSE_PRESETS, fileIdx>>
           ELSE /\ pc' = pc
                /\ fileIdx' = fileIdx + 1
                /\ IF startsWithBang(file.name)
                   THEN /\ REVERSE_PRESETS' =
                               Append(REVERSE_PRESETS,
                                      ReversePreset(excludeList(file.name), file.value,
                                                    baseNameOf(file.name)))
                        /\ UNCHANGED RULE_PRESETS
                   ELSE /\ RULE_PRESETS' = (presetCode(file.name) :> file.value)
                                           @@ RULE_PRESETS
                        /\ UNCHANGED REVERSE_PRESETS
    /\ UNCHANGED <<concVars, includeVars, handlerVars, diskVars, OVERRIDE_PRESETS, TAGS_PRESETS,
                   tagIdx, tagPreset>>

\* one round of the loop over the .json files of rulesDir
LoadRulesFile ==
    /\ pc = "rules"
    /\ rulesDir.exists
    /\ fileIdx <= Len(jsonFiles(rulesDir.files))
    /\ LET file == jsonFiles(rulesDir.files)[fileIdx]
       IN  IF file.state # "ok"
           THEN UNCHANGED <<RULE_PRESETS, REVERSE_PRESETS>>
           ELSE IF startsWithBang(file.name)
                THEN /\ REVERSE_PRESETS' =
                            Append(REVERSE_PRESETS,
                                   ReversePreset(excludeList(file.name), file.value,
                                                 baseNameOf(file.name)))
                     /\ UNCHANGED RULE_PRESETS
                ELSE /\ RULE_PRESETS' = (presetCode(file.name) :> file.value)
                                        @@ RULE_PRESETS
                     /\ UNCHANGED REVERSE_PRESETS
    /\ fileIdx' = fileIdx + 1
    /\ UNCHANGED <<concVars, includeVars, handlerVars, diskVars, OVERRIDE_PRESETS, TAGS_PRESETS,
                   pc, tagIdx, tagPreset>>

\* the rules loop is over, or existsSync(rulesDir) is false
RulesDone ==
    /\ pc = "rules"
    /\ ~rulesDir.exists \/ fileIdx > Len(jsonFiles(rulesDir.files))
    /\ pc' = "overrides"
    /\ fileIdx' = 1
    /\ UNCHANGED <<concVars, includeVars, handlerVars, diskVars, storeVars, tagIdx, tagPreset>>

\* one round of the loop over the .json files of overridesDir
LoadOverridesFile ==
    /\ pc = "overrides"
    /\ overridesDir.exists
    /\ fileIdx <= Len(jsonFiles(overridesDir.files))
    /\ LET file == jsonFiles(overridesDir.files)[fileIdx]
       IN  IF file.state # "ok"
           THEN UNCHANGED OVERRIDE_PRESETS
           ELSE OVERRIDE_PRESETS' = (presetCode(file.name) :> file.value)
                                    @@ OVERRIDE_PRESETS
    /\ fileIdx' = fileIdx + 1
    /\ UNCHANGED <<concVars, includeVars, handlerVars, diskVars, RULE_PRESETS, REVERSE_PRESETS,
                   TAGS_PRESETS, pc, tagIdx, tagPreset>>

\* the overrides loop is over, or existsSync(overridesDir) is false
OverridesDone ==
    /\ pc = "overrides"
    /\ ~overridesDir.exists \/ fileIdx > Len(jsonFiles(overridesDir.files))
    /\ pc' = "tags"
    /\ fileIdx' = 1
    /\ UNCHANGED <<concVars, includeVars, handlerVars, diskVars, storeVars, tagIdx, tagPreset>>

\* the next dirent of tagsDir: skipped unless it is a directory, else a
\* fresh preset { base: [], default: [], country: {} }
TagEnter ==
    /\ pc = "tags"
    /\ tagsDir.exists
    /\ tagIdx <= Len(tagsDir.files)
    /\ IF tagsDir.files[tagIdx].isDirectory
       THEN /\ tagPreset' = TagPreset(<<>>, <<>>, NoKeys)
            /\ pc' = "tagBase"
            /\ UNCHANGED tagIdx
       ELSE /\ tagIdx' = tagIdx + 1
            /\ UNCHANGED <<pc, tagPreset>>
    /\ UNCHANGED <<concVars, includeVars, handlerVars, diskVars, storeVars, fileIdx>>

\* the files of the tag directory being loaded
tagFiles == tagsDir.files[tagIdx].files

\* base.json of the tag, when it exists
LoadTagBase ==
    /\ pc = "tagBase"
    /\ IF existsIn(tagFiles, "base.json") /\ fileIn(tagFiles, "base.json").state = "ok"
       THEN tagPreset' = [tagPreset EXCEPT !.base = fileIn(tagFiles, "base.json").value]
       ELSE UNCHANGED tagPreset
    /\ pc' = "tagDefault"
    /\ UNCHANGED <<concVars, includeVars, handlerVars, diskVars, storeVars, fileIdx, tagIdx>>

\* default.json of the tag, when it exists
LoadTagDefault ==
    /\ pc = "tagDefault"
    /\ IF existsIn(tagFiles, "default.json")
          /\ fileIn(tagFiles, "default.json").state = "ok"
       THEN tagPreset' = [tagPreset EXCEPT
                             !.default = fileIn(tagFiles, "default.json").value]
       ELSE UNCHANGED tagPreset
    /\ pc' = "tagCountry"
    /\ fileIdx' = 1
    /\ UNCHANGED <<concVars, includeVars, handlerVars, diskVars, storeVars, tagIdx>>

\* one round of the loop over the other .json files of the tag
LoadTagCountry ==
    /\ pc = "tagCountry"
    /\ fileIdx <= Len(countryFiles(tagFiles))
    /\ LET file == countryFiles(tagFiles)[fileIdx]
       IN  IF file.state # "ok"
           THEN UNCHANGED tagPreset
           ELSE tagPreset' = [tagPreset EXCEPT
                                 !.country = (presetCode(file.name) :> file.value) @@ @]
    /\ fileIdx' = fileIdx + 1
    /\ UNCHANGED <<concVars, includeVars, handlerVars, diskVars, storeVars, pc, tagIdx>>

\* TAGS_PRESETS[tagName] = preset
TagStore ==
    /\ pc = "tagCountry"
    /\ fileIdx > Len(countryFiles(tagFiles))
    /\ TAGS_PRESETS' = (tagsDir.files[tagIdx].name :> tagPreset) @@ TAGS_PRESETS
    /\ tagIdx' = tagIdx + 1
    /\ fileIdx' = 1
    /\ pc' = "tags"
    /\ UNCHANGED <<concVars, includeVars, handlerVars, diskVars, RULE_PRESETS, OVERRIDE_PRESETS,
                   REVERSE_PRESETS, tagPreset>>

\* the tags loop is over, or existsSync(tagsDir) is false: the routes are
\* registered and createServer returns
TagsDone ==
    /\ pc = "tags"
    /\ ~tagsDir.exists \/ tagIdx > Len(tagsDir.files)
    /\ pc' = "listening"
    /\ UNCHANGED <<concVars, includeVars, handlerVars, diskVars, storeVars, fileIdx, tagIdx,
                   tagPreset>>

NextLoad ==
    \/ LoadRulesFile
    \/ RulesDone
    \/ LoadOverridesFile
    \/ OverridesDone
    \/ TagEnter
    \/ LoadTagBase
    \/ LoadTagDefault
    \/ LoadTagCountry
    \/ TagStore
    \/ TagsDone

SpecLoad == InitLoad /\ [][NextLoad]_vars

(***************************************************************************)
(* Overlapping requests: the handler suspends at `await ipLookup(ip)` and  *)
(* at `await fetch(...)`; what lies between two awaits runs undisturbed    *)
(***************************************************************************)
soloVars == <<subscriptionId, tagVars, lookupVars, iso, res, original, replyHeaders,
              statusCode, rules, merged, transformed, sent, nreq>>

InitConcurrent ==
    /\ ConcurrentAtRest
    /\ RULE_PRESETS = NoKeys
    /\ OVERRIDE_PRESETS = NoKeys
    /\ REVERSE_PRESETS = <<>>
    /\ TAGS_PRESETS = NoKeys
    /\ HandlerAtRest
    /\ IncludeAtRest
    /\ LoadAtRest
    /\ pc = "listening"

\* a request arrives and its run goes up to `await ipLookup(ip)`
Arrive(r, sub) ==
    /\ requests[r].pc = "idle"
    /\ requests' = [requests EXCEPT ![r] =
                       [pc |-> "lookup", subscriptionId |-> sub, lookup |-> "", iso |-> ""]]
    /\ UNCHANGED <<loadVars, includeVars, callVars, storeVars, configVars, soloVars,
                   USERS_COUNTRY_CACHE, pc, lookedUpCodes>>

\* the lookup of run r resolved (possibly to nothing): cache write and cache
\* fallback, up to `await fetch(...)`
LookupResolves(r, country) ==
    /\ requests[r].pc = "lookup"
    /\ LET sub == requests[r].subscriptionId
           looked == lookedUp(country)
       IN  /\ USERS_COUNTRY_CACHE' = cacheAfter(USERS_COUNTRY_CACHE, sub, looked)
           /\ requests' = [requests EXCEPT ![r] =
                              [pc |-> "fetch", subscriptionId |-> sub, lookup |-> looked,
                               iso |-> resolveIso(USERS_COUNTRY_CACHE', sub, looked)]]
           /\ lookedUpCodes' = IF looked # ""
                               THEN [lookedUpCodes EXCEPT ![sub] = @ \cup {looked}]
                               ELSE lookedUpCodes
    /\ UNCHANGED <<loadVars, includeVars, callVars, storeVars, configVars, soloVars, pc>>

\* the lookup of run r threw: iso stays '', then the cache fallback
LookupRejects(r) ==
    /\ requests[r].pc = "lookup"
    /\ LET sub == requests[r].subscriptionId
       IN  /\ USERS_COUNTRY_CACHE' = cacheAfter(USERS_COUNTRY_CACHE, sub, "")
           /\ requests' = [requests EXCEPT ![r] =
                              [pc |-> "fetch", subscriptionId |-> sub, lookup |-> "",
                               iso |-> resolveIso(USERS_COUNTRY_CACHE', sub, "")]]
    /\ UNCHANGED <<loadVars, includeVars, callVars, storeVars, configVars, soloVars, pc,
                   lookedUpCodes>>

\* the upstream fetch of run r settled; the rest of the run does not touch
\* the cache
FetchSettles(r) ==
    /\ requests[r].pc = "fetch"
    /\ requests' = [requests EXCEPT ![r].pc = "done"]
    /\ UNCHANGED <<loadVars, includeVars, callVars, storeVars, configVars, soloVars,
                   USERS_COUNTRY_CACHE, pc, lookedUpCodes>>

NextConcurrent ==
    \/ \E r \in 1..MaxInflight, sub \in SubscriptionIds : Arrive(r, sub)
    \/ \E r \in 1..MaxInflight, country \in LookupCountries : LookupResolves(r, country)
    \/ \E r \in 1..MaxInflight : LookupRejects(r)
    \/ \E r \in 1..MaxInflight : FetchSettles(r)

SpecConcurrent == InitConcurrent /\ [][NextConcurrent]_vars

(***************************************************************************)
(* Properties                                                              *)
(***************************************************************************)
\* every match value of a rule list, rule by rule, domain list before ip list
AllValues(ruleList) ==
    Flatten([i \in 1..Len(ruleList) |->
                (IF Has(ruleList[i], "domain") THEN ruleList[i].domain ELSE <<>>)
                \o (IF Has(ruleList[i], "ip") THEN ruleList[i].ip ELSE <<>>)])

\* The parts of the rule list a request is expected to get, stated on the
\* preset stores and the request context
PresetOrEmpty(code) == IF code \in DOMAIN RULE_PRESETS THEN RULE_PRESETS[code] ELSE <<>>

SelfDirectPart ==
    IF publicURL = "" THEN <<>> ELSE <<DomainRule(<<"domain:" \o publicURL>>, "direct")>>

TagContribution(i) ==
    IF activeTags[i] \in DOMAIN TAGS_PRESETS
    THEN TAGS_PRESETS[activeTags[i]].base
         \o (IF iso \in DOMAIN TAGS_PRESETS[activeTags[i]].country
             THEN TAGS_PRESETS[activeTags[i]].country[iso]
             ELSE TAGS_PRESETS[activeTags[i]].default)
    ELSE <<>>

TagsPart ==
    LET part[i \in 0..Len(activeTags)] ==
            IF i = 0 THEN <<>> ELSE part[i - 1] \o TagContribution(i)
    IN  part[Len(activeTags)]

SameCountryPart ==
    LET known == [DE |-> <<DomainRule(<<"domain:de">>, "direct"),
                           IpRule(<<"geoip:de">>, "direct")>>,
                  US |-> <<DomainRule(<<"domain:us">>, "direct"),
                           IpRule(<<"geoip:us">>, "direct")>>,
                  FR |-> <<DomainRule(<<"domain:fr">>, "direct"),
                           IpRule(<<"geoip:fr">>, "direct")>>,
                  EU |-> <<IpRule(<<"geoip:eu">>, "direct")>>]
    IN  IF directSameCountry /\ iso # "" THEN known[iso] ELSE <<>>

ReverseContribution(i) ==
    IF iso \in REVERSE_PRESETS[i].exclude THEN <<>> ELSE REVERSE_PRESETS[i].rules

ReversePart ==
    LET part[i \in 0..Len(REVERSE_PRESETS)] ==
            IF i = 0 THEN <<>> ELSE part[i - 1] \o ReverseContribution(i)
    IN  part[Len(REVERSE_PRESETS)]

EuPart == IF iso = "EU" THEN PresetOrEmpty("EU") ELSE <<>>

CountryPart ==
    IF iso \in DOMAIN RULE_PRESETS THEN RULE_PRESETS[iso] ELSE PresetOrEmpty("DEFAULT")

\* The override fragment a request is expected to get
SelectedOverride ==
    IF iso \in DOMAIN OVERRIDE_PRESETS THEN OVERRIDE_PRESETS[iso]
    ELSE IF "DEFAULT" \in DOMAIN OVERRIDE_PRESETS THEN OVERRIDE_PRESETS["DEFAULT"]
    ELSE NoKeys

\* The merged document is as the handler built it (the annotating hooks
\* write into it once they have run)
MergedAsBuilt ==
    Composed /\ ~(pc = "done" /\ transform \in {"annotate", "annotateThrows"})

\* C1: for every request that reaches composition the assembled rule list is
\* the concatenation of the self-direct rule (if a public domain is
\* configured), the BASE preset, the rules of each active tag in activation
\* order, the same-country direct rules, the rules of every applicable
\* reverse preset in load order, the EU preset (only for code EU) and the
\* preset of the resolved country or else the DEFAULT preset; with the BASE
\* and DE presets of the scenario, country DE, no tags and same-country
\* routing disabled the list is [BASE rule, DE rule].
C1_AssemblyOrder ==
    Composed =>
      /\ rules = SelfDirectPart \o PresetOrEmpty("BASE") \o TagsPart
                 \o SameCountryPart \o ReversePart \o EuPart \o CountryPart
      /\ ( /\ RULE_PRESETS = [BASE |-> <<IpRule(<<"a">>, "proxy")>>,
                              DE   |-> <<DomainRule(<<"x">>, "proxy")>>]
           /\ iso = "DE" /\ activeTags = <<>> /\ ~directSameCountry /\ publicURL = "" )
         => rules = <<IpRule(<<"a">>, "proxy"), DomainRule(<<"x">>, "proxy")>>

\* C1 witness: a composed request for which every one of the seven parts is
\* non-empty (code EU, a public domain, an active tag with a preset, two
\* applicable reverse presets)
C1_Witness ==
    /\ Composed
    /\ iso = "EU" /\ publicURL # "" /\ directSameCountry
    /\ "BASE" \in DOMAIN RULE_PRESETS /\ "EU" \in DOMAIN RULE_PRESETS
    /\ \E i \in 1..Len(activeTags) : activeTags[i] \in DOMAIN TAGS_PRESETS
    /\ Len(REVERSE_PRESETS) = 2
    /\ \A i \in 1..Len(REVERSE_PRESETS) : iso \notin REVERSE_PRESETS[i].exclude

\* C2: for every request that returns a composed document the rule list of
\* the response body is the deduplicated assembled rule list, with or
\* without a post-processing hook.
C2_DedupFinalPass ==
    (Responded /\ statusCode = 200) =>
        /\ Has(responseBody.json, "routing")
        /\ responseBody.json.routing.rules = dedupLoop(rules, {})

\* C3: after removeDuplicateRules no match value occurs twice anywhere in
\* the output, the ip and domain lists of all rules taken together.
C3_NoValueTwice ==
    \A n \in 1..Len(callResults) :
        (Has(callResults[n], "routing") /\ Has(callResults[n].routing, "rules")) =>
            LET all == AllValues(callResults[n].routing.rules)
            IN  \A i, j \in 1..Len(all) : i # j => all[i] # all[j]

\* C3 witness: removeDuplicateRules has run on a list in which one value is
\* twice in one list and also in the domain list of a rule and the ip list of
\* a rule
C3_Witness ==
    /\ Len(callResults) >= 1
    /\ Has(callArg, "routing") /\ Has(callArg.routing, "rules")
    /\ LET rs == callArg.routing.rules
       IN  \E i, j \in 1..Len(rs) :
              /\ Has(rs[i], "domain") /\ Has(rs[j], "ip")
              /\ Len(rs[i].domain) = 2 /\ rs[i].domain[1] = rs[i].domain[2]
              /\ rs[i].domain[1] \in Range(rs[j].ip)

\* C4: removeDuplicateRules is idempotent: applied to its own result it
\* returns that result.
C4_Idempotent ==
    Len(callResults) = 2 => callResults[2] = callResults[1]

\* C4 witness: removeDuplicateRules has been applied twice to a document
\* from which the first application removed values and a whole rule
C4_Witness ==
    /\ Len(callResults) = 2
    /\ Has(callArg, "routing") /\ Has(callArg.routing, "rules")
    /\ Len(callResults[1].routing.rules) < Len(callArg.routing.rules)
    /\ Len(callResults[1].routing.rules) > 0

\* C5 as claimed: a request whose country is unresolved gets the DEFAULT
\* preset as its country part and no EU, no same-country and no
\* reverse-preset rules.
C5_UnresolvedNoReverse ==
    (Composed /\ iso = "") =>
        rules = SelfDirectPart \o PresetOrEmpty("BASE") \o TagsPart
                \o PresetOrEmpty("DEFAULT")

\* C5 as amended: a request whose country is unresolved gets the DEFAULT
\* preset as its country part and no EU and no same-country rules, and
\* every reverse preset contributes its rules (the empty code is in no
\* exclude set).
C5_UnresolvedUsesDefault ==
    (Composed /\ iso = "") =>
        LET allReverse[i \in 0..Len(REVERSE_PRESETS)] ==
                IF i = 0 THEN <<>> ELSE allReverse[i - 1] \o REVERSE_PRESETS[i].rules
        IN  rules = SelfDirectPart \o PresetOrEmpty("BASE") \o TagsPart
                    \o allReverse[Len(REVERSE_PRESETS)] \o PresetOrEmpty("DEFAULT")

\* C5 witness: a composed request with no resolved country, against a store
\* with DEFAULT and EU presets and reverse presets, same-country routing on
C5_Witness ==
    /\ Composed /\ iso = ""
    /\ directSameCountry
    /\ "DEFAULT" \in DOMAIN RULE_PRESETS /\ "EU" \in DOMAIN RULE_PRESETS
    /\ Len(REVERSE_PRESETS) > 0

\* C6: a reverse preset whose exclude set holds the resolved country
\* contributes nothing; any other contributes its whole rule sequence,
\* unmodified; the contributions lie in load order after the same-country
\* rules and before the EU and country rules.
C6_ReversePresets ==
    Composed =>
        LET before == SelfDirectPart \o PresetOrEmpty("BASE") \o TagsPart \o SameCountryPart
            after == EuPart \o CountryPart
            n == Len(REVERSE_PRESETS)
            size(i) == IF iso \in REVERSE_PRESETS[i].exclude THEN 0
                       ELSE Len(REVERSE_PRESETS[i].rules)
            end[i \in 0..n] == IF i = 0 THEN Len(before) ELSE end[i - 1] + size(i)
        IN  /\ Len(rules) = end[n] + Len(after)
            /\ SubSeq(rules, 1, Len(before)) = before
            /\ SubSeq(rules, end[n] + 1, Len(rules)) = after
            /\ \A i \in 1..n :
                  iso \notin REVERSE_PRESETS[i].exclude =>
                      SubSeq(rules, end[i - 1] + 1, end[i]) = REVERSE_PRESETS[i].rules

\* C6 witness: a composed request whose country is excluded by the first of
\* two reverse presets and not by the second
C6_Witness ==
    /\ Composed
    /\ Len(REVERSE_PRESETS) = 2
    /\ iso \in REVERSE_PRESETS[1].exclude
    /\ iso \notin REVERSE_PRESETS[2].exclude
    /\ Len(REVERSE_PRESETS[1].rules) > 0

\* C7: each active tag with a tag preset contributes its base rules followed
\* by its rules for the resolved country if it has them and otherwise by its
\* default rules, never both; a tag with base, default and US entries gives
\* base+default for FR and base+US for US.
C7_TagContribution ==
    Composed =>
        LET before == SelfDirectPart \o PresetOrEmpty("BASE")
            n == Len(activeTags)
            end[i \in 0..n] == IF i = 0 THEN Len(before)
                               ELSE end[i - 1] + Len(TagContribution(i))
            example == TagPreset(<<DomainRule(<<"s">>, "proxy")>>,
                                 <<DomainRule(<<"d">>, "proxy")>>,
                                 [US |-> <<DomainRule(<<"u">>, "proxy")>>])
        IN  /\ \A i \in 1..n :
                  SubSeq(rules, end[i - 1] + 1, end[i]) = TagContribution(i)
            /\ SubSeq(rules, end[n] + 1, Len(rules))
                  = SameCountryPart \o ReversePart \o EuPart \o CountryPart
            /\ \A i \in 1..n :
                  (activeTags[i] \in DOMAIN TAGS_PRESETS
                   /\ TAGS_PRESETS[activeTags[i]] = example) =>
                      /\ iso = "FR" =>
                            SubSeq(rules, end[i - 1] + 1, end[i])
                              = <<DomainRule(<<"s">>, "proxy"), DomainRule(<<"d">>, "proxy")>>
                      /\ iso = "US" =>
                            SubSeq(rules, end[i - 1] + 1, end[i])
                              = <<DomainRule(<<"s">>, "proxy"), DomainRule(<<"u">>, "proxy")>>

\* C7 witness: a composed request for country US with an active tag whose
\* preset has base rules, default rules and rules for US
C7_Witness ==
    /\ Composed /\ iso = "US"
    /\ \E i \in 1..Len(activeTags) :
          /\ activeTags[i] \in DOMAIN TAGS_PRESETS
          /\ "US" \in DOMAIN TAGS_PRESETS[activeTags[i]].country
          /\ Len(TAGS_PRESETS[activeTags[i]].default) > 0
          /\ Len(TAGS_PRESETS[activeTags[i]].base) > 0

\* C8: the override fragment merged into a response is the override preset
\* of the resolved country if there is one, else the DEFAULT override preset
\* if there is one, else empty.
C8_OverrideSelection ==
    MergedAsBuilt =>
        /\ \A k \in DOMAIN SelectedOverride \ {"remarks", "routing"} :
              Has(merged, k) /\ merged[k] = SelectedOverride[k]
        /\ \A k \in DOMAIN merged \ {"remarks", "routing"} :
              k \in DOMAIN original \cup DOMAIN SelectedOverride

\* C8 witness: a composed request for a resolved country that has no
\* override preset, against a store with a country override and a DEFAULT
\* override
C8_Witness ==
    /\ MergedAsBuilt
    /\ iso # "" /\ iso \notin DOMAIN OVERRIDE_PRESETS
    /\ "DEFAULT" \in DOMAIN OVERRIDE_PRESETS
    /\ "DE" \in DOMAIN OVERRIDE_PRESETS

\* C9 as claimed: every top-level key present in the upstream document and
\* in the selected override carries the override's value, keys present in
\* one of them are kept, and routing is the fixed strategy IPIfNonMatch with
\* the assembled rule list.
C9_OverrideWinsEveryKey ==
    MergedAsBuilt =>
        /\ \A k \in (DOMAIN original \cap DOMAIN SelectedOverride) \ {"routing"} :
              merged[k] = SelectedOverride[k]
        /\ \A k \in DOMAIN original \cup DOMAIN SelectedOverride : Has(merged, k)
        /\ merged.routing = [domainStrategy |-> "IPIfNonMatch", rules |-> rules]

\* C9 as amended: every top-level key other than remarks and routing that is
\* present in the upstream document and in the selected override carries the
\* override's value, every such key present in one of them is kept with its
\* value, and routing is the fixed strategy IPIfNonMatch with the assembled
\* rule list whatever routing the upstream document carried.
C9_OverrideWinsExceptRemarks ==
    MergedAsBuilt =>
        /\ \A k \in (DOMAIN original \cup DOMAIN SelectedOverride) \ {"remarks", "routing"} :
              /\ Has(merged, k)
              /\ merged[k] = IF k \in DOMAIN SelectedOverride
                             THEN SelectedOverride[k]
                             ELSE original[k]
        /\ merged.routing = [domainStrategy |-> "IPIfNonMatch", rules |-> rules]

\* C9 witness: a merged document for an upstream document that carries a
\* routing field and shares a key other than remarks with the override
C9_Witness ==
    /\ MergedAsBuilt
    /\ Has(original, "routing")
    /\ (DOMAIN original \cap DOMAIN SelectedOverride) \ {"remarks", "routing"} # {}
    /\ DOMAIN SelectedOverride \ DOMAIN original # {}

\* C10: the merged remarks is the upstream remarks with the resolved
\* country's display name appended in parentheses when the upstream document
\* has remarks and a country was resolved, is the upstream remarks unchanged
\* when no country was resolved, and is not invented when the upstream
\* document has no remarks.
C10_RemarksOnlyWhenPresent ==
    MergedAsBuilt =>
        LET displayName == [DE |-> "Germany", US |-> "United States", FR |-> "France"]
        IN  /\ (Has(original, "remarks") /\ iso \in DOMAIN displayName) =>
                  merged.remarks = original.remarks \o " (" \o displayName[iso] \o ")"
            /\ (Has(original, "remarks") /\ iso = "") =>
                  merged.remarks = original.remarks
            /\ (~Has(original, "remarks") /\ ~Has(SelectedOverride, "remarks")) =>
                  ~Has(merged, "remarks")


\* The document the handler composed before it called the hook, stated on
\* the upstream document, the stores and the request context
PreHookMerged ==
    Spread(Spread(original, SelectedOverride),
           [remarks |-> (IF Has(original, "remarks") THEN original.remarks
                         ELSE "undefined")
                        \o (IF iso = "" THEN "" ELSE " (" \o countryName(iso) \o ")"),
            routing |-> [domainStrategy |-> "IPIfNonMatch", rules |-> rules]])

\* a document without its routing key
OutsideRouting(doc) == [k \in (DOMAIN doc) \ {"routing"} |-> doc[k]]

\* the hook of the server ran and failed
HookFailed ==
    pc = "done" /\ transform \in {"throws", "annotateThrows"} /\ Has(merged, "routing")

\* C11: when the post-processing hook throws, the request still answers 200
\* with a document, and outside the rule list that document is the merged
\* document as it was before the hook was invoked.
C11_HookFailureUsesPreHook ==
    HookFailed =>
        /\ statusCode = 200
        /\ Len(sent) > 0
        /\ Has(responseBody, "json")
        /\ OutsideRouting(responseBody.json) = OutsideRouting(PreHookMerged)


\* the hook of the server ran and returned undefined
HookReturnedUndefined ==
    pc = "done" /\ transform = "undefined" /\ Has(merged, "routing") /\ Len(sent) > 0

\* C12: when the post-processing hook returns undefined the request answers
\* 200 and the body is the text of the merged document (the value before
\* the hook), its rule list deduplicated.
C12_UndefinedUsesMerged ==
    HookReturnedUndefined =>
        /\ statusCode = 200
        /\ responseBody = [json |-> removeDuplicateRules(PreHookMerged), indent |-> 2]

\* such a request has answered, for a document whose override adds a key
C12_Witness ==
    /\ HookReturnedUndefined
    /\ statusCode = 200
    /\ Has(responseBody, "json")
    /\ SelectedOverride # NoKeys
    /\ Len(rules) > 1


\* the upstream answered with a non-success status
UpstreamRefused == pc = "done" /\ ~res.ok /\ res.status # 0

\* the fetch rejected, or the body of an ok answer could not be parsed
UpstreamBroken == pc = "done" /\ (res = NoRes \/ (res.ok /\ original = NoKeys))

\* C16: when the upstream fetch fails the request ends with one error
\* response and nothing composed: a non-success upstream status is answered
\* with that same status, a rejected fetch or an unparsable body with 502,
\* and in both cases no rule list and no merged document were built and no
\* document text was sent.
C16_UpstreamFailureAborts ==
    /\ UpstreamRefused => (statusCode = res.status /\ sent = <<[error |-> "upstream_error"]>>)
    /\ UpstreamBroken => (statusCode = 502 /\ sent = <<[error |-> "bad_gateway"]>>)
    /\ (UpstreamRefused \/ UpstreamBroken) =>
           /\ rules = <<>>
           /\ merged = NoKeys
           /\ \A n \in 1..Len(sent) : ~Has(sent[n], "json")

\* a refused fetch (404) after an earlier request of the same server
C16_Witness == UpstreamRefused /\ res.status = 404 /\ nreq = 2

\* C17: for every successful upstream response no forwarded header is one
\* of the eight hop-by-hop names, content-length is not forwarded, and every
\* other upstream header is forwarded.
C17_ForwardedHeaders ==
    (pc \in {"transform", "done"} /\ res.ok /\ original # NoKeys) =>
        replyHeaders = res.headers \ {"connection", "keep-alive", "proxy-authenticate",
                                      "proxy-authorization", "te", "trailer",
                                      "transfer-encoding", "upgrade", "content-length"}


\* the upper-case form of what the lookup can return
UpperCode == [c \in LookupCountries |->
                 IF c = "de" THEN "DE" ELSE IF c = "fr" THEN "FR" ELSE c]

\* the lookup of the current request is over
LookupDone == pc \in {"fetch", "transform", "done"}

Occurrences(seq, x) == Cardinality({n \in 1..Len(seq) : seq[n] = x})

Chain == [k \in 1..(Len(frames) - 1) |-> frames[k + 1].path]

\* the running activation replaces the piece it looks at by {} and goes on;
\* no activation is entered or left
ResolvesToEmptyObject ==
    /\ Len(frames') = Len(frames)
    /\ frames'[Len(frames)].out = top.out \o <<"{}">>
    /\ frames'[Len(frames)].rest = Tail(top.rest)
    /\ \A k \in 1..(Len(frames) - 1) : frames'[k] = frames[k]

\* The number of steps an expansion of `text` takes below the files of
\* `chain`: one for a piece of text and for a token answered with {}, and
\* for a token that is entered the steps of its file and two more
RECURSIVE StepsLeft(_, _)
StepsLeft(text, chain) ==
    IF Len(text) = 0 THEN 0
    ELSE LET tok == Head(text)
             file == fileName(tokenName(tok))
         IN  (IF tok \notin IncludeTokens THEN 1
              ELSE IF \/ file \in chain
                      \/ ~includesDir[file].exists
                      \/ ~includesDir[file].readable
                   THEN 1
              ELSE 2 + StepsLeft(includesDir[file].text, chain \cup {file}))
             + StepsLeft(Tail(text), chain)

\* The steps parseWithIncludes still has to take: those of the running
\* activation, those of each suspended activation after the token it waits
\* for and one for its resumption, the return of the expansion and the parse
Variant ==
    LET below(k) == {frames[j].path : j \in 2..k}
        sum[k \in 0..Len(frames)] ==
            IF k = 0 THEN 0
            ELSE sum[k - 1]
                 + (IF k = Len(frames)
                    THEN StepsLeft(frames[k].rest, below(k))
                    ELSE 1 + StepsLeft(Tail(frames[k].rest), below(k)))
    IN  IF pc = "parsed" THEN 0
        ELSE IF pc = "parse" THEN 1
        ELSE 2 + sum[Len(frames)]

\* C13: include expansion terminates for every set of include files, self
\* references and cycles included: every step of parseWithIncludes lowers a
\* natural number, the expansion stops only at its end (where the parse is
\* the one step left), no file is ever in the chain twice, and a token
\* naming a file of the current chain is replaced by {} without a nested
\* expansion.
C13_IncludeTerminates ==
    /\ [][Variant' < Variant]_vars
    /\ [](Variant \in Nat)
    /\ [](pc = "expand" => ENABLED ExpandStep)
    /\ [](pc \in {"expand", "parse", "parsed"})
    /\ [](\A j, k \in 1..Len(Chain) : Chain[j] = Chain[k] => j = k)
    /\ [][(AtToken /\ \E k \in 1..Len(Chain) : Chain[k] = fullPath)
              => ResolvesToEmptyObject]_vars

\* a.json includes b.json, which includes a.json, and the host that
\* includes both has been expanded and parsed
C13_Witness ==
    /\ pc = "parsed"
    /\ raw = <<"[", "ws", "o0", ",", "@include a", ",", "@include b", "]", "ws">>
    /\ includesDir["a.json"].text = <<"@include b.json">>
    /\ includesDir["b.json"].text = <<"[", "o2", ",", "@include a", "]", "ws">>
    /\ parsed.ok

\* The text an expansion is expected to give: pieces outside tokens as they
\* are, {} for a token that names a file of `empty` or of the chain, and for
\* any other token the trimmed expansion of its file
RECURSIVE RefExpand(_, _, _)
RefExpand(text, chain, empty) ==
    IF Len(text) = 0 THEN <<>>
    ELSE LET tok == Head(text)
             file == fileName(tokenName(tok))
         IN  (IF tok \notin IncludeTokens THEN <<tok>>
              ELSE IF file \in chain \cup empty THEN <<"{}">>
              ELSE trim(RefExpand(includesDir[file].text, chain \cup {file}, empty)))
             \o RefExpand(Tail(text), chain, empty)

MissingFiles == {f \in IncludeFileNames : ~includesDir[f].exists}
UnreadableFiles ==
    {f \in IncludeFileNames : includesDir[f].exists /\ ~includesDir[f].readable}
NotJsonFiles == {f \in IncludeFileNames : includesDir[f].text = <<"bad">>}

\* C14: with include files that are missing (and none that fails to read),
\* the expanded text has {} for every token that names a missing file and
\* the normal expansion for every other token; the rule file with a missing
\* a.json and a one-object b.json loads as [o0, {}, o1].
C14_MissingInclude ==
    (pc = "parsed" /\ MissingFiles # {} /\ UnreadableFiles = {}) =>
        /\ expanded = RefExpand(raw, {}, MissingFiles)
        /\ (/\ raw = <<"[", "ws", "o0", ",", "@include a", ",", "@include b", "]", "ws">>
            /\ "a.json" \in MissingFiles
            /\ includesDir["b.json"].text = <<"ws", "o1", "ws">>)
           => parsed = [ok |-> TRUE,
                        value |-> JsonArray(<<JsonObject("o0"), JsonObject("{}"),
                                              JsonObject("o1")>>)]

C14_Witness ==
    /\ pc = "parsed"
    /\ raw = <<"[", "ws", "o0", ",", "@include a", ",", "@include b", "]", "ws">>
    /\ MissingFiles = {"a.json", "c.json"}
    /\ includesDir["b.json"].text = <<"ws", "o1", "ws">>
    /\ parsed.ok

\* C15 as stated: with an include file that cannot be read or that holds no
\* valid JSON, the expanded text has {} for the tokens naming such a file
\* and the host file parses.
C15_FailedIncludeIsEmptyObject ==
    (pc = "parsed" /\ UnreadableFiles \cup NotJsonFiles # {}) =>
        /\ expanded = RefExpand(raw, {}, MissingFiles \cup UnreadableFiles \cup NotJsonFiles)
        /\ parsed = parseExpanded(expanded, expectArray)
        /\ (\A n \in 1..Len(expanded) : expanded[n] # "bad")

\* C15: with an include file that cannot be read, the expanded text has {}
\* for every token naming it and the normal expansion for every other token:
\* the rule file with an unreadable a.json and a one-object b.json loads as
\* [o0, {}, o1].  The text of an include file is not parsed on its own: it
\* is put into the host text as it is, and with an a.json that holds no
\* JSON the same rule file fails to parse.
C15_UnreadableIncludeIsEmptyObject ==
    /\ (pc = "parsed" /\ UnreadableFiles # {}) =>
          expanded = RefExpand(raw, {}, MissingFiles \cup UnreadableFiles)
    /\ (/\ pc = "parsed"
        /\ raw = <<"[", "ws", "o0", ",", "@include a", ",", "@include b", "]", "ws">>
        /\ includesDir["b.json"].text = <<"ws", "o1", "ws">>)
       => /\ "a.json" \in UnreadableFiles =>
                parsed = [ok |-> TRUE,
                          value |-> JsonArray(<<JsonObject("o0"), JsonObject("{}"),
                                                JsonObject("o1")>>)]
          /\ "a.json" \in NotJsonFiles =>
                (~parsed.ok /\ expanded = <<"[", "ws", "o0", ",", "bad", ",", "o1", "]", "ws">>)

C15_Witness ==
    /\ pc = "parsed"
    /\ raw = <<"[", "ws", "o0", ",", "@include a", ",", "@include b", "]", "ws">>
    /\ "a.json" \in UnreadableFiles
    /\ includesDir["b.json"].text = <<"ws", "o1", "ws">>
    /\ parsed.ok


\* the files of a directory that load: name ends in .json and
\* parseWithIncludes returns
LoadableFiles(dir) ==
    {dir.files[n] : n \in {m \in 1..Len(dir.files) :
                              endsWithJson(dir.files[m].name) /\ dir.files[m].state = "ok"}}

\* the rules a slot of a tag directory is expected to hold: those of the
\* loadable file the file system finds under the slot's name
SlotOf(files, name) ==
    IF \E f \in LoadableFiles(Dir(files)) : samePath(f.name, name)
    THEN (CHOOSE f \in LoadableFiles(Dir(files)) : samePath(f.name, name)).value
    ELSE <<>>

\* the stores hold exactly the files that load
StoresAsLoaded ==
    /\ DOMAIN RULE_PRESETS =
          {presetCode(f.name) : f \in {g \in LoadableFiles(rulesDir) : g.name # "!fr,us.json"}}
    /\ \A f \in LoadableFiles(rulesDir) :
          f.name # "!fr,us.json" => RULE_PRESETS[presetCode(f.name)] = f.value
    /\ REVERSE_PRESETS =
          IF \E f \in LoadableFiles(rulesDir) : f.name = "!fr,us.json"
          THEN <<[exclude |-> {"FR", "US"}, rules |-> SlotOf(rulesDir.files, "!fr,us.json"),
                  name |-> "!fr,us"]>>
          ELSE <<>>
    /\ DOMAIN OVERRIDE_PRESETS = {presetCode(f.name) : f \in LoadableFiles(overridesDir)}
    /\ \A f \in LoadableFiles(overridesDir) : OVERRIDE_PRESETS[presetCode(f.name)] = f.value
    /\ DOMAIN TAGS_PRESETS =
          {tagsDir.files[n].name : n \in {m \in 1..Len(tagsDir.files) :
                                             tagsDir.files[m].isDirectory}}
    /\ \A n \in 1..Len(tagsDir.files) :
          tagsDir.files[n].isDirectory =>
              LET loaded == TAGS_PRESETS[tagsDir.files[n].name]
                  files == tagsDir.files[n].files
              IN  /\ loaded.base = SlotOf(files, "base.json")
                  /\ loaded.default = SlotOf(files, "default.json")
                  /\ DOMAIN loaded.country =
                        {presetCode(f.name) :
                            f \in {g \in LoadableFiles(Dir(files)) :
                                      g.name \notin {"base.json", "default.json"}}}
                  /\ \A f \in LoadableFiles(Dir(files)) :
                        f.name \notin {"base.json", "default.json"} =>
                            loaded.country[presetCode(f.name)] = f.value

C21_ActiveTagsUnique ==
    pc \in {"lookup", "fetch", "transform", "done"} =>
        /\ \A i, j \in 1..Len(activeTags) : activeTags[i] = activeTags[j] => i = j
        /\ {activeTags[i] : i \in 1..Len(activeTags)}
              = {(tagsList \o userTags)[i] : i \in 1..Len(tagsList \o userTags)}


\* a direct call was given a document with a rule list and has returned
CallReturned ==
    /\ pc = "call"
    /\ Len(callResults) > 0
    /\ Has(callArg, "routing")
    /\ Has(callArg.routing, "rules")

\* the rule list given to the call and the one it returned
CallIn == callArg.routing.rules
CallOut == callResults[1].routing.rules

\* the values of a list that are neither in `known` nor earlier in the list
FirstSeen(list, known) ==
    SelectSeq([n \in 1..Len(list) |->
                  IF list[n] \in known \/ \E m \in 1..(n - 1) : list[m] = list[n]
                  THEN "" ELSE list[n]],
              LAMBDA v : v # "")

\* the match values of a rule and those of the rules before rule i
DomainValues(rule) ==
    IF Has(rule, "domain") THEN {rule.domain[n] : n \in 1..Len(rule.domain)} ELSE {}
IpValues(rule) == IF Has(rule, "ip") THEN {rule.ip[n] : n \in 1..Len(rule.ip)} ELSE {}
SeenBefore(i) == UNION {DomainValues(CallIn[j]) \cup IpValues(CallIn[j]) : j \in 1..(i - 1)}

\* rule i has a list, and every value of its lists is a value of an earlier rule
Exhausted(i) ==
    /\ Has(CallIn[i], "domain") \/ Has(CallIn[i], "ip")
    /\ DomainValues(CallIn[i]) \cup IpValues(CallIn[i]) \subseteq SeenBefore(i)

\* the rules that stay, and where rule i is in the output
Kept == {i \in 1..Len(CallIn) : ~Exhausted(i)}
PlaceOf(i) == Cardinality({j \in Kept : j <= i})

\* C22: removeDuplicateRules drops exactly the rules that had a domain or
\* ip list and have no value left in any list once the values of earlier
\* rules are removed; a rule with neither list is never dropped and is in
\* the output as it was.
C22_DroppedIffEmptied ==
    CallReturned =>
        /\ Len(CallOut) = Cardinality(Kept)
        /\ \A i \in Kept :
              /\ DOMAIN CallOut[PlaceOf(i)] = DOMAIN CallIn[i]
              /\ CallOut[PlaceOf(i)].outboundTag = CallIn[i].outboundTag
              /\ (~Has(CallIn[i], "domain") /\ ~Has(CallIn[i], "ip")) =>
                     CallOut[PlaceOf(i)] = CallIn[i]
              /\ (Has(CallIn[i], "domain") \/ Has(CallIn[i], "ip")) =>
                     \/ Has(CallOut[PlaceOf(i)], "domain")
                        /\ CallOut[PlaceOf(i)].domain # <<>>
                     \/ Has(CallOut[PlaceOf(i)], "ip") /\ CallOut[PlaceOf(i)].ip # <<>>

\* a call whose list has a rule without lists behind a rule that was
\* dropped
C22_Witness ==
    /\ CallReturned
    /\ Len(CallIn) = 2
    /\ Exhausted(1)
    /\ ~Has(CallIn[2], "domain") /\ ~Has(CallIn[2], "ip")
    /\ CallOut = <<CallIn[2]>>

\* C23: removeDuplicateRules keeps the first occurrence of every match
\* value, rules scanned in order and the domain list before the ip list, and
\* keeps the order: the output rules are the input rules that stay, in input
\* order, and each list of an output rule is the input list without the
\* values met before, in input order.
C23_FirstOccurrenceInOrder ==
    CallReturned =>
        \A i \in Kept :
            /\ Has(CallIn[i], "domain") =>
                  CallOut[PlaceOf(i)].domain = FirstSeen(CallIn[i].domain, SeenBefore(i))
            /\ Has(CallIn[i], "ip") =>
                  CallOut[PlaceOf(i)].ip =
                      FirstSeen(CallIn[i].ip, SeenBefore(i) \cup DomainValues(CallIn[i]))

\* a call where the second rule loses a value to the first and keeps its
\* other value
C23_Witness ==
    /\ CallReturned
    /\ Len(CallIn) = 2
    /\ Has(CallIn[1], "ip") /\ CallIn[1].ip = <<"a">>
    /\ Has(CallIn[2], "domain") /\ CallIn[2].domain = <<"b", "a">>
    /\ Len(CallOut) = 2
    /\ CallOut[2].domain = <<"b">>


\* a file expected to hold a rule array was parsed to an array
LoadedAsRuleList == pc = "parsed" /\ expectArray /\ parsed.ok /\ parsed.value.array

\* C24: when a file loaded as a rule list parses to an array, no element of
\* the stored list is an array, and the stored objects are the object
\* literals of the expanded text in their order from left to right, whatever
\* the nesting of the arrays they stood in.
C24_FlattenedInOrder ==
    LoadedAsRuleList =>
        /\ \A n \in 1..Len(parsed.value.items) : ~parsed.value.items[n].array
        /\ [n \in 1..Len(parsed.value.items) |-> parsed.value.items[n].leaf]
              = SelectSeq(expanded, LAMBDA t : t \in ObjectTexts)

\* a rule file whose include (c.json, which is an include of b.json) brings
\* an array that itself holds the array of a.json
C24_Witness ==
    /\ LoadedAsRuleList
    /\ raw = <<"[", "@include c", "]">>
    /\ expanded = <<"[", "[", "o2", ",", "[", "o2", ",", "{}", "]", "]", "]">>
    /\ Len(parsed.value.items) = 3


\* the lower-case form of a file name
LowerName(name) == IF name = "BASE.json" THEN "base.json" ELSE name

\* C25: after loading, for every file of a tag directory that loads: a file
\* named base.json or default.json in any letter case is the tag's base or
\* default slot and is no country entry, and any other .json file is the
\* country entry under its upper-cased name.
C25_TagFileNamesAnyCase ==
    pc = "listening" =>
        \A n \in 1..Len(tagsDir.files) :
            tagsDir.files[n].isDirectory =>
                \A f \in LoadableFiles(Dir(tagsDir.files[n].files)) :
                    LET loaded == TAGS_PRESETS[tagsDir.files[n].name]
                    IN  /\ LowerName(f.name) = "base.json" =>
                              (loaded.base = f.value /\ "BASE" \notin DOMAIN loaded.country)
                        /\ LowerName(f.name) = "default.json" =>
                              (loaded.default = f.value
                               /\ "DEFAULT" \notin DOMAIN loaded.country)
                        /\ LowerName(f.name) \notin {"base.json", "default.json"} =>
                              (/\ presetCode(f.name) \in DOMAIN loaded.country
                               /\ loaded.country[presetCode(f.name)] = f.value)



(***************************************************************************)
(* C26: the preset store after initialization                              *)
(***************************************************************************)
\* C26: the preset stores are read-only after initialization: no step of
\* request handling, with or without a hook, successful or failed, changes
\* the rule, override, reverse or tag presets
C26_StoreReadOnly ==
    [][/\ RULE_PRESETS' = RULE_PRESETS
       /\ OVERRIDE_PRESETS' = OVERRIDE_PRESETS
       /\ REVERSE_PRESETS' = REVERSE_PRESETS
       /\ TAGS_PRESETS' = TAGS_PRESETS]_vars



(***************************************************************************)
(* C29: one send for each run of the handler                               *)
(***************************************************************************)
\* C29: each run of the request handler calls reply.send exactly once, on
\* the upstream error paths, without a hook, and when the hook succeeded or
\* failed; no merged document is sent after the hook's document
C29_SingleSend ==
    pc = "done" => Len(sent) = 1



(***************************************************************************)
(* C30: each preset is contributed once                                    *)
(***************************************************************************)
\* A rule that the rule preset `key` holds once and that no other source of
\* the request holds: it can occur in the assembled list more than once only
\* when the preset itself is contributed more than once
OwnRules(key) ==
    {r \in Range(RULE_PRESETS[key]) :
        /\ Occurrences(RULE_PRESETS[key], r) = 1
        /\ \A other \in DOMAIN RULE_PRESETS \ {key} : r \notin Range(RULE_PRESETS[other])
        /\ r \notin Range(SelfDirectPart \o TagsPart \o SameCountryPart \o ReversePart)}

\* C30: in the assembled rule list of a request with no tag active twice,
\* the rules of each loaded rule preset are contributed at most once; with
\* the code EU and an EU preset, the EU preset's rules appear once
C30_PresetContributedOnce ==
    (/\ Composed
     /\ \A i, j \in 1..Len(activeTags) : activeTags[i] = activeTags[j] => i = j)
    => \A key \in DOMAIN RULE_PRESETS :
          \A r \in OwnRules(key) : Occurrences(rules, r) <= 1



(***************************************************************************)
(* C28: the scope of the cycle guard                                       *)
(***************************************************************************)
\* C28 as stated: the marked files are exactly the files of the current
\* chain (a file is marked only while its content is expanded), a token
\* that meets the guard names an ancestor, and every token is expanded as
\* the chain alone demands, sibling references included.
C28_MarkedOnlyWhileExpanded ==
    /\ pc = "expand" => seenPaths = Range(Chain)
    /\ (AtToken /\ fullPath \in seenPaths) => fullPath \in Range(Chain)
    /\ pc \in {"parse", "parsed"} =>
          expanded = RefExpand(raw, {}, MissingFiles \cup UnreadableFiles)

\* C28: every file of the current chain is marked, and a marked file outside
\* the chain is one whose read failed (its mark is never removed); a file
\* that was expanded is unmarked when its expansion returns, so the expanded
\* text has {} only for tokens naming an ancestor, a missing or an
\* unreadable file, and a readable file named by two sibling tokens or by
\* two parents is expanded at each place.
C28_GuardScopedToChain ==
    /\ pc = "expand" =>
          /\ Range(Chain) \subseteq seenPaths
          /\ seenPaths \ Range(Chain) \subseteq UnreadableFiles
    /\ pc \in {"parse", "parsed"} =>
          /\ expanded = RefExpand(raw, {}, MissingFiles \cup UnreadableFiles)
          /\ (/\ raw = <<"[", "@include a", ",", "@include a.json", "]">>
              /\ includesDir["a.json"].text = <<"ws", "o1", "ws">>)
             => expanded = <<"[", "o1", ",", "o1", "]">>
          /\ (/\ raw = <<"[", "ws", "o0", ",", "@include a", ",", "@include b", "]", "ws">>
              /\ includesDir["a.json"].text = <<"@include b.json">>
              /\ includesDir["b.json"].text = <<"ws", "o1", "ws">>)
             => expanded = <<"[", "ws", "o0", ",", "o1", ",", "o1", "]", "ws">>

\* a.json, a one-object file, is named by two sibling tokens of the host and
\* both places hold its object
C28_Witness ==
    /\ pc = "parsed"
    /\ raw = <<"[", "@include a", ",", "@include a.json", "]">>
    /\ includesDir["a.json"].text = <<"ws", "o1", "ws">>
    /\ expanded = <<"[", "o1", ",", "o1", "]">>
    /\ parsed.ok

\* b.json is named by a.json and by the host, and an unreadable c.json
\* takes no part
C28_WitnessTwoParents ==
    /\ pc = "parsed"
    /\ raw = <<"[", "ws", "o0", ",", "@include a", ",", "@include b", "]", "ws">>
    /\ includesDir["a.json"].text = <<"@include b.json">>
    /\ includesDir["b.json"].text = <<"ws", "o1", "ws">>
    /\ parsed.ok



(***************************************************************************)
(* C27: the last-known-country cache under overlapping requests            *)
(***************************************************************************)
\* C27: under any interleaving of overlapping requests, every entry of the
\* cache is a non-empty code that some earlier lookup returned for that same
\* subscriptionId; a run whose own lookup gave a code resolves to that code;
\* a run whose lookup gave nothing or threw resolves to a code some lookup
\* returned for the same subscriptionId, or to the empty code.
C27_CacheNeverCorrupted ==
    /\ DOMAIN USERS_COUNTRY_CACHE \subseteq SubscriptionIds
    /\ \A sub \in DOMAIN USERS_COUNTRY_CACHE :
          /\ USERS_COUNTRY_CACHE[sub] # ""
          /\ USERS_COUNTRY_CACHE[sub] \in lookedUpCodes[sub]
    /\ \A r \in 1..MaxInflight :
          requests[r].pc \in {"fetch", "done"} =>
             IF requests[r].lookup # ""
             THEN requests[r].iso = requests[r].lookup
             ELSE \/ requests[r].iso = ""
                  \/ requests[r].iso \in lookedUpCodes[requests[r].subscriptionId]

\* two overlapping runs for s1: the first got US, the second's lookup
\* returned DE later and overwrote the entry while the first is still
\* waiting for its fetch with its own code
C27_Witness ==
    /\ requests[1] = [pc |-> "fetch", subscriptionId |-> "s1", lookup |-> "US", iso |-> "US"]
    /\ requests[2].subscriptionId = "s1"
    /\ requests[2].lookup = "DE"
    /\ USERS_COUNTRY_CACHE["s1"] = "DE"

\* a run whose lookup failed while another run for s1 had already stored DE
C27_WitnessStale ==
    /\ requests[1] = [pc |-> "fetch", subscriptionId |-> "s1", lookup |-> "DE", iso |-> "DE"]
    /\ requests[2] = [pc |-> "fetch", subscriptionId |-> "s1", lookup |-> "", iso |-> "DE"]

====
